---- MODULE Spec2Model ----
(***************************************************************************)
(* TextFSM runtime (textfsm/parser.py): the FSM that drives input lines    *)
(* through the rules of the current state, the Value option callbacks      *)
(* (Required, Filldown, Fillup, Key, List), the record operators and the   *)
(* line operators, ParseText, ParseTextToDicts and Reset (Spec); and the   *)
(* template compiler's checks: the Value block read by _ParseFSMVariables  *)
(* (SpecTemplate), the rule actions and _ValidateFSM (Templates), the      *)
(* printing of rules (SpecStr) and nested groups of List Values            *)
(* (SpecNested). TextTable's mutators (SpecTable) and IndexTable's row     *)
(* lookup (SpecIndex) follow the specification of the library, as does the *)
(* index cache of CliTable (SpecCache). A text parsed in two calls         *)
(* (SpecSplit), two TextFSM objects of one template (SpecTwo), the Pager   *)
(* of textfsm/terminal.py (SpecPager, SpecPagerLive) and merge_indexes of  *)
(* textfsm/debugger.py (SpecMerge) have a specification each.              *)
(*                                                                         *)
(* A regular expression is modelled by what it does to a line: the set of  *)
(* lines it matches and, for each named group, whether the group captures  *)
(* the text of the line or does not take part in the match (None).         *)
(***************************************************************************)
EXTENDS Integers, Sequences, FiniteSets, TLC

\* ------------------------------------------------------------------ bounds

\* ParseText calls plus input lines read, over the life of one FSM object.
MaxWork == 4

\* Lines of the Value block of a template that _ParseFSMVariables reads.
MaxTemplateLines == 3

\* The input lines: the empty line and three distinct non-empty lines.
Lines == {"", "a", "b", "c"}

\* ------------------------------------------------------------- cell values

\* Python values held by Value.value, by a cell of a row, by a list item.
None == [t |-> "none", s |-> "", l |-> <<>>]
Str(x) == [t |-> "str", s |-> x, l |-> <<>>]
Lst(q) == [t |-> "list", s |-> "", l |-> q]

\* Python truth value: None, '' and [] are false.
Truthy(c) == \/ c.t = "str" /\ c.s # ""
             \/ c.t = "list" /\ c.l # <<>>

\* ---------------------------------------------------------------- templates

\* A rule: the lines its regex matches, its named groups in group order
\* (text = "line": the group captures the line; "none": the group takes no
\* part in the match), and its action.
Rule(pat, caps, line_op, record_op, new_state, line_num) ==
  [pat |-> pat, caps |-> caps, line_op |-> line_op, record_op |-> record_op,
   new_state |-> new_state, line_num |-> line_num]

Cap(name) == [name |-> name, text |-> "line"]
NoCap(name) == [name |-> name, text |-> "none"]

\* The state sections of the templates given to TextFSM(), as _ParseFSMState
\* reads them: state name -> rules. Templates 1 to 4 compile, the others
\* break a rule of TextFSMRule.__init__ or of _ValidateFSM.
Templates == <<
  \* 1: one state, a Record per line, implicit EOF.
  [ Start |-> <<
      Rule({"a", "c", ""}, <<Cap("boo")>>, "", "Record", "", 5),
      Rule({"b"}, <<Cap("hoo")>>, "Next", "Record", "", 6) >> ],
  \* 2: Continue chains, Clear, Clearall and Error, EOF declared.
  [ Start |-> <<
      Rule({"a", "b"}, <<Cap("boo")>>, "Continue", "", "", 5),
      Rule({"a"}, <<Cap("hoo")>>, "Continue", "Record", "", 6),
      Rule({"a", ""}, <<Cap("zzz")>>, "Continue", "Clear", "", 7),
      Rule({"b"}, <<>>, "Next", "NoRecord", "", 8),
      Rule({"b", "c"}, <<Cap("hoo")>>, "Error", "Record", "\"hello\"", 9) >>,
    EOF |-> <<>> ],
  \* 3: state changes, End and EOF by transition, implicit EOF.
  [ Start |-> <<
      Rule({"a"}, <<Cap("boo")>>, "", "", "State1", 5),
      Rule({"b"}, <<Cap("hoo")>>, "", "Record", "End", 6),
      Rule({"c"}, <<Cap("hoo"), NoCap("boo")>>, "", "", "EOF", 7) >>,
    State1 |-> <<
      Rule({"a", ""}, <<Cap("hoo")>>, "Next", "Record", "Start", 10),
      Rule({"b"}, <<Cap("boo")>>, "", "Clearall", "", 11),
      Rule({"c"}, <<>>, "Next", "Clear", "End", 12) >>,
    End |-> <<>> ],
  \* 4: state changes with EOF declared, Error without a message.
  [ Start |-> <<
      Rule({"a", "b"}, <<Cap("boo")>>, "Continue", "", "", 5),
      Rule({"a"}, <<Cap("hoo")>>, "", "Record", "State1", 6),
      Rule({"c"}, <<>>, "", "", "EOF", 7) >>,
    State1 |-> <<
      Rule({"a"}, <<Cap("boo")>>, "", "Record", "", 10),
      Rule({"b"}, <<>>, "", "", "End", 11),
      Rule({"c"}, <<>>, "Error", "", "", 12) >>,
    EOF |-> <<>> ],
  \* 5: a rule names a state that is not declared.
  [ Start |-> <<
      Rule({"a"}, <<Cap("boo")>>, "", "Record", "State2", 5) >>,
    State1 |-> <<
      Rule({"b"}, <<>>, "", "", "Start", 8) >> ],
  \* 6: EOF is declared with a rule.
  [ Start |-> <<
      Rule({"a"}, <<Cap("boo")>>, "", "Record", "EOF", 5) >>,
    EOF |-> <<
      Rule({"b"}, <<>>, "", "", "", 8) >> ],
  \* 7: End is declared with a rule.
  [ Start |-> <<
      Rule({"a"}, <<Cap("boo")>>, "", "Record", "End", 5) >>,
    End |-> <<
      Rule({"b"}, <<>>, "", "", "", 8) >> ],
  \* 8: no Start state.
  [ State1 |-> <<
      Rule({"a"}, <<Cap("boo")>>, "", "Record", "", 5) >> ],
  \* 9: Continue with a new state.
  [ Start |-> <<
      Rule({"a"}, <<Cap("boo")>>, "Continue", "Record", "State1", 5),
      Rule({"a"}, <<Cap("hoo")>>, "", "", "", 6) >>,
    State1 |-> <<
      Rule({"b"}, <<>>, "", "", "Start", 9) >> ],
  \* 10: Next with a quoted message.
  [ Start |-> <<
      Rule({"a"}, <<Cap("boo")>>, "Next", "Record", "\"hello\"", 5) >> ],
  \* 11: the default line operator with a quoted message.
  [ Start |-> <<
      Rule({"a"}, <<Cap("boo")>>, "", "", "\"hello\"", 5) >> ]
>>

\* The quoted messages among the new_state texts of the templates: the
\* texts that NEWSTATE_RE takes by its second branch, \".*\".
QuotedMessages == {"\"hello\""}

\* re.match(r'\w+', new_state): the text starts with a word character,
\* which a quoted message does not.
StartsWithWord(new_state) == new_state # "" /\ new_state \notin QuotedMessages

\* Mutant of ValidRule: Continue with a new state is let through.
ValidRule_ContinueMayJump(rule) ==
  ~(rule.line_op # "Error" /\ rule.new_state # ""
     /\ ~StartsWithWord(rule.new_state))

\* The checks of TextFSMRule.__init__ on a parsed action: TRUE when no
\* TextFSMTemplateError is raised.
ValidRule(rule) ==
  /\ ~(rule.line_op = "Continue" /\ rule.new_state # "")
  /\ ~(rule.line_op # "Error" /\ rule.new_state # ""
         /\ ~StartsWithWord(rule.new_state))

\* _ParseFSMState over the whole template: every rule line makes a rule.
ValidRules(states) ==
  \A n \in DOMAIN states : \A k \in 1..Len(states[n]) : ValidRule(states[n][k])

\* Mutant of ValidateFSM: the destination states are not looked at.
ValidateFSM_NoJumpCheck(states) ==
  /\ "Start" \in DOMAIN states
  /\ "End" \in DOMAIN states => states["End"] = <<>>
  /\ "EOF" \in DOMAIN states => states["EOF"] = <<>>

\* TextFSM._ValidateFSM: TRUE when no TextFSMTemplateError is raised.
ValidateFSM(states) ==
  /\ "Start" \in DOMAIN states
  /\ "End" \in DOMAIN states => states["End"] = <<>>
  /\ "EOF" \in DOMAIN states => states["EOF"] = <<>>
  /\ \A n \in DOMAIN states \ {"End"} : \A k \in 1..Len(states[n]) :
       LET rule == states[n][k] IN
       \/ rule.line_op = "Error"
       \/ rule.new_state = "" \/ rule.new_state \in {"End", "EOF"}
       \/ rule.new_state \in DOMAIN states \ {"End"}

\* self.states of the templates that compile, as _ValidateFSM leaves it:
\* 'End' is removed, a declared 'EOF' stays with no rules.
StateTables ==
  [t \in {k \in 1..Len(Templates) :
            ValidRules(Templates[k]) /\ ValidateFSM(Templates[k])} |->
     [n \in DOMAIN Templates[t] \ {"End"} |-> Templates[t][n]]]

\* The option lists of the declarations of Value boo and of Value hoo, in
\* declaration order.
BooOptions == {
  <<>>, <<"Required">>, <<"Filldown">>, <<"Fillup">>,
  <<"Required", "List">>, <<"List", "Required">>,
  <<"Filldown", "Required">>, <<"Fillup", "Filldown">> }

HooOptions == {
  <<>>, <<"Required">>, <<"Filldown">>, <<"List">>,
  <<"List", "Filldown">>, <<"Key", "Fillup", "List">> }

\* TextFSMValue after Parse and OnCreateOptions; nested holds the names of
\* the named groups inside the pattern of the Value, none for a pattern
\* like (a).
TextFSMValue(name, options) ==
  [name |-> name, options |-> options, value |-> None, myvar |-> None,
   lvalue |-> <<>>, nested |-> <<>>]

\* TextFSMValue of a pattern with named groups inside, ((?P<hoo>a)).
NestedValue(name, options, nested) ==
  [TextFSMValue(name, options) EXCEPT !.nested = nested]

HasOption(v, o) == \E k \in 1..Len(v.options) : v.options[k] = o

\* ------------------------------------------------- Value option callbacks

\* match.groupdict() of the pattern of a Value on the text it captured:
\* each nested group holds the text.
GroupDictOf(names, text) ==
  [t |-> "dict", s |-> "",
   l |-> [k \in 1..Len(names) |-> [t |-> names[k], s |-> text, l |-> <<>>]]]

\* Mutant of ListItem: the captured string is appended whatever the pattern.
ListItem_String(v) == v.value

\* List.OnAssignVar's list item: the dictionary of the nested groups if the
\* pattern has some, otherwise the captured string. (A pattern with nested
\* groups is matched on a captured string only: no rule of the templates
\* here leaves the group of such a Value out of its match.)
ListItem(v) ==
  IF v.nested # <<>> /\ v.value.t = "str"
    THEN GroupDictOf(v.nested, v.value.s)
    ELSE v.value

\* Mutant of FillupFrom: only the newest row is filled.
FillupFrom_NewestOnly(result, idx, val, k) ==
  IF k = 0 THEN result
  ELSE IF Truthy(result[k][idx]) THEN result
  ELSE [result EXCEPT ![k][idx] = val]

\* Mutant of FillupFrom: cells that are set are overwritten too.
RECURSIVE FillupFrom_Overwrites(_, _, _, _)
FillupFrom_Overwrites(result, idx, val, k) ==
  IF k = 0 THEN result
  ELSE FillupFrom_Overwrites([result EXCEPT ![k][idx] = val], idx, val, k - 1)

\* Fillup.OnAssignVar's loop over reversed(self._result) from row k down:
\* stop at the first row whose cell is set, otherwise set the cell.
RECURSIVE FillupFrom(_, _, _, _)
FillupFrom(result, idx, val, k) ==
  IF k = 0 THEN result
  ELSE IF Truthy(result[k][idx]) THEN result
  ELSE FillupFrom([result EXCEPT ![k][idx] = val], idx, val, k - 1)

\* Mutant of OptionOnAssignVar: List keeps the newest capture only.
OptionOnAssignVar_ListReplaces(f, i, o) ==
  LET v == f.values[i] IN
  CASE o = "Filldown" -> [f EXCEPT !.values[i].myvar = v.value]
    [] o = "Fillup" ->
         IF Truthy(v.value)
           THEN [f EXCEPT !.result = FillupFrom(f.result, i, v.value, Len(f.result))]
           ELSE f
    [] o = "List" -> [f EXCEPT !.values[i].lvalue = <<ListItem(v)>>]
    [] OTHER -> f

\* One option's OnAssignVar on Value i of fsm f.
OptionOnAssignVar(f, i, o) ==
  LET v == f.values[i] IN
  CASE o = "Filldown" -> [f EXCEPT !.values[i].myvar = v.value]
    [] o = "Fillup" ->
         IF Truthy(v.value)
           THEN [f EXCEPT !.result = FillupFrom(f.result, i, v.value, Len(f.result))]
           ELSE f
    [] o = "List" -> [f EXCEPT !.values[i].lvalue = Append(@, ListItem(v))]
    [] OTHER -> f

\* Mutant of OptionOnClearVar: Filldown does not restore the value.
OptionOnClearVar_NoRestore(f, i, o) ==
  LET v == f.values[i] IN
  CASE o = "List" ->
         IF ~HasOption(v, "Filldown")
           THEN [f EXCEPT !.values[i].lvalue = <<>>]
           ELSE f
    [] OTHER -> f

\* One option's OnClearVar.
OptionOnClearVar(f, i, o) ==
  LET v == f.values[i] IN
  CASE o = "Filldown" -> [f EXCEPT !.values[i].value = v.myvar]
    [] o = "List" ->
         IF ~HasOption(v, "Filldown")
           THEN [f EXCEPT !.values[i].lvalue = <<>>]
           ELSE f
    [] OTHER -> f

\* One option's OnClearAllVar.
OptionOnClearAllVar(f, i, o) ==
  CASE o = "Filldown" -> [f EXCEPT !.values[i].myvar = None]
    [] o = "List" -> [f EXCEPT !.values[i].lvalue = <<>>]
    [] OTHER -> f

\* Mutant of OptionRaisesSkipRecord: Required tests for None only.
OptionRaisesSkipRecord_NoneOnly(f, i, o) ==
  o = "Required" /\ f.values[i].value = None

\* One option's OnSaveRecord: Required raises SkipRecord on an empty value.
OptionRaisesSkipRecord(f, i, o) == o = "Required" /\ ~Truthy(f.values[i].value)

OptionOnSaveRecord(f, i, o) ==
  CASE o = "List" -> [f EXCEPT !.values[i].value = Lst(f.values[i].lvalue)]
    [] OTHER -> f

\* The list comprehensions over self.options, from option k on.
RECURSIVE OnAssignVarFrom(_, _, _)
OnAssignVarFrom(f, i, k) ==
  IF k > Len(f.values[i].options) THEN f
  ELSE OnAssignVarFrom(OptionOnAssignVar(f, i, f.values[i].options[k]), i, k + 1)

RECURSIVE OnClearVarFrom(_, _, _)
OnClearVarFrom(f, i, k) ==
  IF k > Len(f.values[i].options) THEN f
  ELSE OnClearVarFrom(OptionOnClearVar(f, i, f.values[i].options[k]), i, k + 1)

RECURSIVE OnClearAllVarFrom(_, _, _)
OnClearAllVarFrom(f, i, k) ==
  IF k > Len(f.values[i].options) THEN f
  ELSE OnClearAllVarFrom(OptionOnClearAllVar(f, i, f.values[i].options[k]), i, k + 1)

\* TextFSMValue.OnSaveRecord from option k on: [f, skip], skip when an
\* option raised SkipRecord (the options after it do not run).
RECURSIVE OnSaveRecordFrom(_, _, _)
OnSaveRecordFrom(f, i, k) ==
  IF k > Len(f.values[i].options) THEN [f |-> f, skip |-> FALSE]
  ELSE IF OptionRaisesSkipRecord(f, i, f.values[i].options[k])
    THEN [f |-> f, skip |-> TRUE]
  ELSE OnSaveRecordFrom(OptionOnSaveRecord(f, i, f.values[i].options[k]), i, k + 1)

\* TextFSMValue.AssignVar, ClearVar, ClearAllVar on Value i.
AssignVar(f, i, val) == OnAssignVarFrom([f EXCEPT !.values[i].value = val], i, 1)

ClearVar(f, i) == OnClearVarFrom([f EXCEPT !.values[i].value = None], i, 1)

ClearAllVar(f, i) == OnClearAllVarFrom([f EXCEPT !.values[i].value = None], i, 1)

\* ------------------------------------------------------------ TextFSM

RECURSIVE ClearRecordFrom(_, _)
ClearRecordFrom(f, i) ==
  IF i > Len(f.values) THEN f ELSE ClearRecordFrom(ClearVar(f, i), i + 1)

\* TextFSM._ClearRecord
ClearRecord(f) == ClearRecordFrom(f, 1)

RECURSIVE ClearAllRecordFrom(_, _)
ClearAllRecordFrom(f, i) ==
  IF i > Len(f.values) THEN f ELSE ClearAllRecordFrom(ClearAllVar(f, i), i + 1)

\* TextFSM._ClearAllRecord
ClearAllRecord(f) == ClearAllRecordFrom(f, 1)

\* The loop of _AppendRecord over self.values from Value i on:
\* [f, cur_record, skip].
RECURSIVE SaveRecordFrom(_, _, _)
SaveRecordFrom(f, i, cur_record) ==
  IF i > Len(f.values) THEN [f |-> f, cur_record |-> cur_record, skip |-> FALSE]
  ELSE LET r == OnSaveRecordFrom(f, i, 1) IN
       IF r.skip THEN [f |-> r.f, cur_record |-> cur_record, skip |-> TRUE]
       ELSE SaveRecordFrom(r.f, i + 1, Append(cur_record, r.f.values[i].value))

\* Mutant of WholeRecordEmpty: only None counts as empty.
WholeRecordEmpty_NoneOnly(cur_record) ==
  \A k \in 1..Len(cur_record) : cur_record[k] = None

\* len(cur_record) == cur_record.count(None) + cur_record.count([])
WholeRecordEmpty(cur_record) ==
  \A k \in 1..Len(cur_record) : cur_record[k] = None \/ cur_record[k] = Lst(<<>>)

\* Mutant of NoneToNull: None entries stay in the record.
NoneToNull_Keeps(cur_record) == cur_record

\* Replace any None entry with the null string.
NoneToNull(cur_record) ==
  [k \in 1..Len(cur_record) |->
     IF cur_record[k] = None THEN Str("") ELSE cur_record[k]]

\* Mutant of AppendRecord: a skipped record is not cleared.
AppendRecord_SkipKeeps(f) ==
  IF Len(f.values) = 0 THEN f
  ELSE LET r == SaveRecordFrom(f, 1, <<>>) IN
       IF r.skip THEN r.f
       ELSE IF WholeRecordEmpty(r.cur_record) THEN r.f
       ELSE ClearRecord([r.f EXCEPT !.result = Append(@, NoneToNull(r.cur_record))])

\* TextFSM._AppendRecord
AppendRecord(f) ==
  IF Len(f.values) = 0 THEN f
  ELSE LET r == SaveRecordFrom(f, 1, <<>>) IN
       IF r.skip THEN ClearRecord(r.f)
       ELSE IF WholeRecordEmpty(r.cur_record) THEN r.f
       ELSE ClearRecord([r.f EXCEPT !.result = Append(@, NoneToNull(r.cur_record))])

\* TextFSM._GetValue: the index of the first Value of that name, 0 for None.
GetValue(f, name) ==
  IF \E i \in 1..Len(f.values) : f.values[i].name = name
    THEN CHOOSE i \in 1..Len(f.values) :
           /\ f.values[i].name = name
           /\ \A j \in 1..(i - 1) : f.values[j].name # name
    ELSE 0

\* matched.group(name) for a matched rule's group on this line.
Group(cap, ln) == IF cap.text = "line" THEN Str(ln) ELSE None

\* TextFSM._AssignVar
AssignVarByName(f, cap, ln) ==
  LET i == GetValue(f, cap.name) IN
  IF i # 0 THEN AssignVar(f, i, Group(cap, ln)) ELSE f

\* for value in matched.groupdict(): self._AssignVar(matched, value)
RECURSIVE AssignGroupsFrom(_, _, _, _)
AssignGroupsFrom(f, caps, ln, k) ==
  IF k > Len(caps) THEN f
  ELSE AssignGroupsFrom(AssignVarByName(f, caps[k], ln), caps, ln, k + 1)

\* matched.groupdict() in group order: the groups written in the rule, and
\* after each ${name} the groups nested in the pattern of that Value, which
\* TextFSMRule.__init__ has put in its place.
RECURSIVE GroupsFrom(_, _, _)
GroupsFrom(f, caps, k) ==
  IF k > Len(caps) THEN <<>>
  ELSE LET i == GetValue(f, caps[k].name)
           inside == IF i = 0 THEN <<>>
                     ELSE [j \in 1..Len(f.values[i].nested) |->
                             [name |-> f.values[i].nested[j], text |-> caps[k].text]]
       IN <<caps[k]>> \o inside \o GroupsFrom(f, caps, k + 1)

GroupDict(f, rule) == GroupsFrom(f, rule.caps, 1)

\* TextFSM._CheckRule: rule.regex_obj.match(line)
CheckRule(rule, ln) == ln \in rule.pat

\* The record operator part of TextFSM._Operations.
RecordOperation(f, rule) ==
  CASE rule.record_op = "Record" -> AppendRecord(f)
    [] rule.record_op = "Clear" -> ClearRecord(f)
    [] rule.record_op = "Clearall" -> ClearAllRecord(f)
    [] OTHER -> f

\* Mutant of Transition: the name changes, the rules in use do not.
Transition_KeepsRules(f, rule) ==
  IF rule.new_state # ""
    THEN [f EXCEPT !.cur_state_name = rule.new_state]
    ELSE f

\* The state transition of _CheckLine after a rule that is not a Continue.
Transition(f, rule) ==
  IF rule.new_state # ""
    THEN [f EXCEPT
            !.cur_state = IF rule.new_state \notin {"End", "EOF"}
                            THEN rule.new_state ELSE @,
            !.cur_state_name = rule.new_state]
    ELSE f

\* Mutant of ResetFSM: _ClearRecord in place of _ClearAllRecord.
ResetFSM_ClearRecord(f) ==
  ClearRecord([f EXCEPT !.cur_state = "Start", !.cur_state_name = "Start",
                        !.result = <<>>])

\* TextFSM.Reset
ResetFSM(f) ==
  ClearAllRecord([f EXCEPT !.cur_state = "Start", !.cur_state_name = "Start",
                           !.result = <<>>])

\* Mutant of ImplicitRecord: the eof argument is not looked at.
ImplicitRecord_IgnoresEof(f, eofarg) ==
  f.cur_state_name # "End" /\ "EOF" \notin DOMAIN StateTables[f.states]

\* The condition of ParseText's implicit EOF Record.
ImplicitRecord(f, eofarg) ==
  f.cur_state_name # "End" /\ "EOF" \notin DOMAIN StateTables[f.states] /\ eofarg

\* TextFSM.__init__: the parsed template, then Reset().
TextFSM(values, states) ==
  ResetFSM([values |-> values, states |-> states, cur_state |-> "Start",
            cur_state_name |-> "Start", result |-> <<>>])

\* The rules of self._cur_state.
CurRules(f) == StateTables[f.states][f.cur_state]

\* TextFSM._GetHeader: the names of the Values in declaration order.
GetHeader(f) == [i \in 1..Len(f.values) |-> f.values[i].name]

\* zip(a, b): the pairs up to the end of the shorter sequence.
Zip(a, b) ==
  [k \in 1..(IF Len(a) < Len(b) THEN Len(a) ELSE Len(b)) |-> <<a[k], b[k]>>]

\* dict(pairs): a key takes the value of the last pair that has it.
Dict(pairs) ==
  [key \in {pairs[k][1] : k \in 1..Len(pairs)} |->
     pairs[CHOOSE k \in 1..Len(pairs) :
             /\ pairs[k][1] = key
             /\ \A j \in (k + 1)..Len(pairs) : pairs[j][1] # key][2]]

\* Mutant of ToDicts: the last row is left out.
ToDicts_DropsLast(f, result_lists) ==
  [r \in 1..(Len(result_lists) - 1) |-> Dict(Zip(GetHeader(f), result_lists[r]))]

\* The loop of ParseTextToDicts over the rows ParseText returned.
ToDicts(f, result_lists) ==
  [r \in 1..Len(result_lists) |-> Dict(Zip(GetHeader(f), result_lists[r]))]

\* What a method returned: nothing (None, or it raised), the rows of
\* ParseText, or the dicts of ParseTextToDicts.
NoReturn == [kind |-> "none", rows |-> <<>>, dicts |-> <<>>]
ReturnRows(rows) == [kind |-> "rows", rows |-> rows, dicts |-> <<>>]
ReturnDicts(dicts) == [kind |-> "dicts", rows |-> <<>>, dicts |-> dicts]

\* ------------------------------------------------------------ state machine

VARIABLES
  fsm,            \* the TextFSM object
  pc,             \* position in ParseText: idle, loop, rule, record, lineop, eof
  line,           \* the line _CheckLine is working on
  rule_idx,       \* position of _CheckLine's loop over the rules
  remaining,      \* lines of the text not read yet
  eof,            \* ParseText's eof argument
  error,          \* the TextFSMError raised by the last ParseText, if any
  used,           \* ParseText calls made plus lines read so far
  last_call,      \* the public method called last: init, Reset, ParseText, ParseTextToDicts
  ended,          \* a rule of this call has moved the FSM to End or EOF
  filldown_last,  \* per Filldown Value: the last value assigned since Clearall/Reset
  list_acc,       \* per Value: the captures assigned since the last reset of a list
  returned,       \* what the method called last has returned
  template,       \* the template file handed to the constructor
  table,          \* the TextTable or IndexTable the table methods work on
  parts,          \* the parts of a text that is parsed in parts
  objects,        \* two TextFSM objects of one template, and what each does alone
  pager,          \* the Pager object and its Page call
  match_index_pairs,\* the list merge_indexes works on, and the list it was given
  INDEX           \* the index cache of the CliTable class, and the CliTable objects under construction

vars == <<fsm, pc, line, rule_idx, remaining, eof, error, used, last_call,
          ended, filldown_last, list_acc, returned, template, table,
          parts,
          objects,
          pager,
          match_index_pairs,
          INDEX>>

NoError == [raised |-> FALSE, text |-> <<>>]

\* Mutant of ErrorText: the input line is left out of the message.
ErrorText_NoLine(rule, ln) ==
  IF rule.new_state # ""
    THEN <<"Error: ", rule.new_state, ". Rule Line: ", ToString(rule.line_num), ".">>
    ELSE <<"State Error raised. Rule Line: ", ToString(rule.line_num)>>

\* The message of the TextFSMError of _Operations, as the pieces the format
\* string puts together.
ErrorText(rule, ln) ==
  IF rule.new_state # ""
    THEN <<"Error: ", rule.new_state, ". Rule Line: ", ToString(rule.line_num),
           ". Input Line: ", ln, ".">>
    ELSE <<"State Error raised. Rule Line: ", ToString(rule.line_num),
           ". Input Line: ", ln>>

\* No table: the FSM is used without a TextTable.
NoTable == [header |-> <<>>, rows |-> <<>>]

\* A template file of which nothing has been read.
NoTemplate == [lines |-> <<>>, states |-> 0, pos |-> 0, complete |-> FALSE]

\* The compiled templates: two Values with any of the option lists and a
\* state table, and the template without Values.
Init ==
  /\ \E o1 \in BooOptions, o2 \in HooOptions, st \in DOMAIN StateTables :
       \/ fsm = TextFSM(<<TextFSMValue("boo", o1), TextFSMValue("hoo", o2)>>, st)
       \/ /\ o1 = <<>> /\ o2 = <<>>
          /\ fsm = TextFSM(<<>>, st)
  /\ pc = "idle"
  /\ line = ""
  /\ rule_idx = 0
  /\ remaining = 0
  /\ eof = TRUE
  /\ error = NoError
  /\ used = 0
  /\ last_call = "init"
  /\ ended = FALSE
  /\ filldown_last = [i \in 1..Len(fsm.values) |-> None]
  /\ list_acc = [i \in 1..Len(fsm.values) |-> <<>>]
  /\ returned = NoReturn
  /\ template = NoTemplate
  /\ table = NoTable
  /\ parts = <<>>
  /\ objects = <<>>
  /\ pager = <<>>
  /\ match_index_pairs = <<>>
  /\ INDEX = <<>>

\* The rule _CheckLine is at.
CurRule == CurRules(fsm)[rule_idx]

\* Mutant of AfterCheckLine: the loop breaks on End only.
AfterCheckLine_EndOnly(f) == IF f.cur_state_name = "End" THEN "eof" ELSE "loop"

\* ParseText's check after _CheckLine: break on End or EOF.
AfterCheckLine(f) == IF f.cur_state_name \in {"End", "EOF"} THEN "eof" ELSE "loop"

\* filldown_last after the groups of a matched rule were assigned.
RECURSIVE AssignedFrom(_, _, _, _, _)
AssignedFrom(f, fl, caps, ln, k) ==
  IF k > Len(caps) THEN fl
  ELSE LET i == GetValue(f, caps[k].name) IN
       AssignedFrom(f,
                    IF i # 0 /\ HasOption(f.values[i], "Filldown")
                      THEN [fl EXCEPT ![i] = Group(caps[k], ln)] ELSE fl,
                    caps, ln, k + 1)

\* list_acc after the groups of a matched rule were assigned: each capture
\* assigned to a List Value is added at the end of that Value's captures.
RECURSIVE CapturedFrom(_, _, _, _, _)
CapturedFrom(f, la, caps, ln, k) ==
  IF k > Len(caps) THEN la
  ELSE LET i == GetValue(f, caps[k].name) IN
       CapturedFrom(f,
                    IF i # 0 /\ HasOption(f.values[i], "List")
                      THEN [la EXCEPT ![i] = Append(@, Group(caps[k], ln))]
                      ELSE la,
                    caps, ln, k + 1)

\* list_acc after a Record or a Clear: the captures of every Value without
\* Filldown are dropped.
DropUnlessFilldown(f, la) ==
  [i \in 1..Len(f.values) |->
     IF HasOption(f.values[i], "Filldown") THEN la[i] ELSE <<>>]

\* t.Reset()
Reset ==
  /\ pc = "idle"
  /\ fsm' = ResetFSM(fsm)
  /\ last_call' = "Reset"
  /\ filldown_last' = [i \in 1..Len(fsm.values) |-> None]
  /\ list_acc' = [i \in 1..Len(fsm.values) |-> <<>>]
  /\ returned' = NoReturn
  /\ UNCHANGED <<pc, line, rule_idx, remaining, eof, error, used, ended>>
  /\ UNCHANGED <<template, table>>
  /\ UNCHANGED parts
  /\ UNCHANGED objects
  /\ UNCHANGED pager
  /\ UNCHANGED match_index_pairs
  /\ UNCHANGED INDEX

\* Mutant of ParseText: the call resets the FSM before it reads the text.
ParseText_Resets ==
  /\ pc = "idle"
  /\ used < MaxWork
  /\ \E n \in 0..(MaxWork - used - 1), e \in BOOLEAN :
       /\ remaining' = n
       /\ eof' = e
  /\ used' = used + 1
  /\ error' = NoError
  /\ ended' = FALSE
  /\ pc' = "loop"
  /\ last_call' = "ParseText"
  /\ returned' = NoReturn
  /\ fsm' = ResetFSM(fsm)
  /\ UNCHANGED <<line, rule_idx, filldown_last, list_acc>>
  /\ UNCHANGED <<template, table>>
  /\ UNCHANGED parts
  /\ UNCHANGED objects
  /\ UNCHANGED pager
  /\ UNCHANGED match_index_pairs
  /\ UNCHANGED INDEX

\* t.ParseText(text, eof) is called with a text of n lines.
ParseText ==
  /\ pc = "idle"
  /\ used < MaxWork
  /\ \E n \in 0..(MaxWork - used - 1), e \in BOOLEAN :
       /\ remaining' = n
       /\ eof' = e
  /\ used' = used + 1
  /\ error' = NoError
  /\ ended' = FALSE
  /\ pc' = "loop"
  /\ last_call' = "ParseText"
  /\ returned' = NoReturn
  /\ UNCHANGED <<fsm, line, rule_idx, filldown_last, list_acc>>
  /\ UNCHANGED <<template, table>>
  /\ UNCHANGED parts
  /\ UNCHANGED objects
  /\ UNCHANGED pager
  /\ UNCHANGED match_index_pairs
  /\ UNCHANGED INDEX

\* t.ParseTextToDicts(text, eof) is called with a text of n lines: it calls
\* ParseText with its arguments.
ParseTextToDicts ==
  /\ pc = "idle"
  /\ used < MaxWork
  /\ \E n \in 0..(MaxWork - used - 1), e \in BOOLEAN :
       /\ remaining' = n
       /\ eof' = e
  /\ used' = used + 1
  /\ error' = NoError
  /\ ended' = FALSE
  /\ pc' = "loop"
  /\ last_call' = "ParseTextToDicts"
  /\ returned' = NoReturn
  /\ UNCHANGED <<fsm, line, rule_idx, filldown_last, list_acc>>
  /\ UNCHANGED <<template, table>>
  /\ UNCHANGED parts
  /\ UNCHANGED objects
  /\ UNCHANGED pager
  /\ UNCHANGED match_index_pairs
  /\ UNCHANGED INDEX

\* Mutant of NextLine: the line that was read stays in the text.
NextLine_Rereads ==
  /\ pc = "loop"
  /\ remaining > 0
  /\ \E ln \in Lines : line' = ln
  /\ remaining' = remaining
  /\ used' = used + 1
  /\ rule_idx' = 1
  /\ pc' = "rule"
  /\ UNCHANGED <<fsm, eof, error, last_call, ended, filldown_last, list_acc, returned>>
  /\ UNCHANGED <<template, table>>
  /\ UNCHANGED parts
  /\ UNCHANGED objects
  /\ UNCHANGED pager
  /\ UNCHANGED match_index_pairs
  /\ UNCHANGED INDEX

\* for line in lines: the next line is read.
NextLine ==
  /\ pc = "loop"
  /\ remaining > 0
  /\ \E ln \in Lines : line' = ln
  /\ remaining' = remaining - 1
  /\ used' = used + 1
  /\ rule_idx' = 1
  /\ pc' = "rule"
  /\ UNCHANGED <<fsm, eof, error, last_call, ended, filldown_last, list_acc, returned>>
  /\ UNCHANGED <<template, table>>
  /\ UNCHANGED parts
  /\ UNCHANGED objects
  /\ UNCHANGED pager
  /\ UNCHANGED match_index_pairs
  /\ UNCHANGED INDEX

\* for line in lines: no line is left.
EndOfText ==
  /\ pc = "loop"
  /\ remaining = 0
  /\ pc' = "eof"
  /\ UNCHANGED <<fsm, line, rule_idx, remaining, eof, error, used,
                 last_call, ended, filldown_last, list_acc, returned>>
  /\ UNCHANGED <<template, table>>
  /\ UNCHANGED parts
  /\ UNCHANGED objects
  /\ UNCHANGED pager
  /\ UNCHANGED match_index_pairs
  /\ UNCHANGED INDEX

\* _CheckLine: the rule does not match the line.
RuleNoMatch ==
  /\ pc = "rule"
  /\ rule_idx <= Len(CurRules(fsm))
  /\ ~CheckRule(CurRule, line)
  /\ rule_idx' = rule_idx + 1
  /\ UNCHANGED <<fsm, pc, line, remaining, eof, error, used, last_call,
                 ended, filldown_last, list_acc, returned>>
  /\ UNCHANGED <<template, table>>
  /\ UNCHANGED parts
  /\ UNCHANGED objects
  /\ UNCHANGED pager
  /\ UNCHANGED match_index_pairs
  /\ UNCHANGED INDEX

\* Mutant of RuleMatch: the operators run without the groups being assigned.
RuleMatch_NoAssign ==
  /\ pc = "rule"
  /\ rule_idx <= Len(CurRules(fsm))
  /\ CheckRule(CurRule, line)
  /\ pc' = "record"
  /\ UNCHANGED <<fsm, line, rule_idx, remaining, eof, error, used, last_call,
                 ended, filldown_last, list_acc, returned>>
  /\ UNCHANGED <<template, table>>
  /\ UNCHANGED parts
  /\ UNCHANGED objects
  /\ UNCHANGED pager
  /\ UNCHANGED match_index_pairs
  /\ UNCHANGED INDEX

\* _CheckLine: the rule matches, its named groups are assigned.
RuleMatch ==
  /\ pc = "rule"
  /\ rule_idx <= Len(CurRules(fsm))
  /\ CheckRule(CurRule, line)
  /\ fsm' = AssignGroupsFrom(fsm, GroupDict(fsm, CurRule), line, 1)
  /\ filldown_last' = AssignedFrom(fsm, filldown_last, GroupDict(fsm, CurRule), line, 1)
  /\ list_acc' = CapturedFrom(fsm, list_acc, GroupDict(fsm, CurRule), line, 1)
  /\ pc' = "record"
  /\ UNCHANGED <<line, rule_idx, remaining, eof, error, used, last_call,
                 ended, returned>>
  /\ UNCHANGED <<template, table>>
  /\ UNCHANGED parts
  /\ UNCHANGED objects
  /\ UNCHANGED pager
  /\ UNCHANGED match_index_pairs
  /\ UNCHANGED INDEX

\* _CheckLine: the loop over the rules ends without a break.
RulesExhausted ==
  /\ pc = "rule"
  /\ rule_idx > Len(CurRules(fsm))
  /\ pc' = AfterCheckLine(fsm)
  /\ line' = ""
  /\ rule_idx' = 0
  /\ UNCHANGED <<fsm, remaining, eof, error, used, last_call, ended,
                 filldown_last, list_acc, returned>>
  /\ UNCHANGED <<template, table>>
  /\ UNCHANGED parts
  /\ UNCHANGED objects
  /\ UNCHANGED pager
  /\ UNCHANGED match_index_pairs
  /\ UNCHANGED INDEX

\* _Operations: the record operator of the matched rule.
RecordOp ==
  /\ pc = "record"
  /\ fsm' = RecordOperation(fsm, CurRule)
  /\ filldown_last' = IF CurRule.record_op = "Clearall"
                        THEN [i \in 1..Len(fsm.values) |-> None]
                        ELSE filldown_last
  /\ list_acc' = CASE CurRule.record_op = "Clearall" ->
                         [i \in 1..Len(fsm.values) |-> <<>>]
                    [] CurRule.record_op \in {"Record", "Clear"} ->
                         DropUnlessFilldown(fsm, list_acc)
                    [] OTHER -> list_acc
  /\ pc' = "lineop"
  /\ UNCHANGED <<line, rule_idx, remaining, eof, error, used, last_call,
                 ended, returned>>
  /\ UNCHANGED <<template, table>>
  /\ UNCHANGED parts
  /\ UNCHANGED objects
  /\ UNCHANGED pager
  /\ UNCHANGED match_index_pairs
  /\ UNCHANGED INDEX

\* _Operations: line operator Error raises TextFSMError out of ParseText.
LineOpError ==
  /\ pc = "lineop"
  /\ CurRule.line_op = "Error"
  /\ error' = [raised |-> TRUE, text |-> ErrorText(CurRule, line)]
  /\ pc' = "idle"
  /\ line' = ""
  /\ rule_idx' = 0
  /\ remaining' = 0
  /\ eof' = TRUE
  /\ UNCHANGED <<fsm, used, last_call, ended, filldown_last, list_acc, returned>>
  /\ UNCHANGED <<template, table>>
  /\ UNCHANGED parts
  /\ UNCHANGED objects
  /\ UNCHANGED pager
  /\ UNCHANGED match_index_pairs
  /\ UNCHANGED INDEX

\* Mutant of LineOpContinue: the line goes back to the first rule of the
\* state instead of on to the next rule.
LineOpContinue_Restart ==
  /\ pc = "lineop"
  /\ CurRule.line_op = "Continue"
  /\ rule_idx' = 1
  /\ pc' = "rule"
  /\ UNCHANGED <<fsm, line, remaining, eof, error, used, last_call,
                 ended, filldown_last, list_acc, returned>>
  /\ UNCHANGED <<template, table>>
  /\ UNCHANGED parts
  /\ UNCHANGED objects
  /\ UNCHANGED pager
  /\ UNCHANGED match_index_pairs
  /\ UNCHANGED INDEX

\* _Operations returns False: Continue with the next rule on the same line.
LineOpContinue ==
  /\ pc = "lineop"
  /\ CurRule.line_op = "Continue"
  /\ rule_idx' = rule_idx + 1
  /\ pc' = "rule"
  /\ UNCHANGED <<fsm, line, remaining, eof, error, used, last_call,
                 ended, filldown_last, list_acc, returned>>
  /\ UNCHANGED <<template, table>>
  /\ UNCHANGED parts
  /\ UNCHANGED objects
  /\ UNCHANGED pager
  /\ UNCHANGED match_index_pairs
  /\ UNCHANGED INDEX

\* _Operations returns True: state transition, break.
LineOpNext ==
  /\ pc = "lineop"
  /\ CurRule.line_op \notin {"Error", "Continue"}
  /\ fsm' = Transition(fsm, CurRule)
  /\ ended' = (ended \/ CurRule.new_state \in {"End", "EOF"})
  /\ pc' = AfterCheckLine(fsm')
  /\ line' = ""
  /\ rule_idx' = 0
  /\ UNCHANGED <<remaining, eof, error, used, last_call, filldown_last, list_acc, returned>>
  /\ UNCHANGED <<template, table>>
  /\ UNCHANGED parts
  /\ UNCHANGED objects
  /\ UNCHANGED pager
  /\ UNCHANGED match_index_pairs
  /\ UNCHANGED INDEX

\* ParseText after the loop: the implicit EOF Record, return self._result;
\* ParseTextToDicts then turns the rows into dicts and returns them.
EndOfParse ==
  /\ pc = "eof"
  /\ fsm' = IF ImplicitRecord(fsm, eof) THEN AppendRecord(fsm) ELSE fsm
  /\ returned' = IF last_call = "ParseTextToDicts"
                    THEN ReturnDicts(ToDicts(fsm', fsm'.result))
                    ELSE ReturnRows(fsm'.result)
  /\ pc' = "idle"
  /\ remaining' = 0
  /\ eof' = TRUE
  /\ ended' = FALSE
  /\ list_acc' = IF /\ fsm.cur_state_name # "End"
                       /\ "EOF" \notin DOMAIN StateTables[fsm.states]
                       /\ eof
                    THEN DropUnlessFilldown(fsm, list_acc) ELSE list_acc
  /\ UNCHANGED <<line, rule_idx, error, used, last_call, filldown_last>>
  /\ UNCHANGED <<template, table>>
  /\ UNCHANGED parts
  /\ UNCHANGED objects
  /\ UNCHANGED pager
  /\ UNCHANGED match_index_pairs
  /\ UNCHANGED INDEX

Next ==
  \/ Reset
  \/ ParseText
  \/ ParseTextToDicts
  \/ NextLine
  \/ EndOfText
  \/ RuleNoMatch
  \/ RuleMatch
  \/ RulesExhausted
  \/ RecordOp
  \/ LineOpError
  \/ LineOpContinue
  \/ LineOpNext
  \/ EndOfParse

Spec == Init /\ [][Next]_vars

\* The state tables whose rules can take a Value boo with the group hoo
\* nested in its pattern: no rule names both boo and hoo, which re.compile
\* refuses as a redefinition of the group hoo.
NestedTables ==
  {t \in DOMAIN StateTables :
     \A n \in DOMAIN StateTables[t] : \A k \in 1..Len(StateTables[t][n]) :
       LET names == {StateTables[t][n][k].caps[j].name :
                       j \in 1..Len(StateTables[t][n][k].caps)}
       IN ~({"boo", "hoo"} \subseteq names)}

\* The named groups inside the pattern of Value boo: ((?P<hoo>a)) and
\* ((?P<hoo>a)(?P<zzz>a)?).
NestedGroups == {<<"hoo">>, <<"hoo", "zzz">>}

\* The compiled templates with a Value List boo whose pattern nests named
\* groups, and Value hoo.
NestedInit ==
  /\ \E o1 \in {o \in BooOptions : \E k \in 1..Len(o) : o[k] = "List"},
        o2 \in HooOptions, st \in NestedTables, nested \in NestedGroups :
       fsm = TextFSM(<<NestedValue("boo", o1, nested), TextFSMValue("hoo", o2)>>, st)
  /\ pc = "idle"
  /\ line = ""
  /\ rule_idx = 0
  /\ remaining = 0
  /\ eof = TRUE
  /\ error = NoError
  /\ used = 0
  /\ last_call = "init"
  /\ ended = FALSE
  /\ filldown_last = [i \in 1..Len(fsm.values) |-> None]
  /\ list_acc = [i \in 1..Len(fsm.values) |-> <<>>]
  /\ returned = NoReturn
  /\ template = NoTemplate
  /\ table = NoTable
  /\ parts = <<>>
  /\ objects = <<>>
  /\ pager = <<>>
  /\ match_index_pairs = <<>>
  /\ INDEX = <<>>

SpecNested == NestedInit /\ [][Next]_vars

\* ------------------------------------------- the Value block of a template

\* TextFSM.MAX_NAME_LEN
MAX_NAME_LEN == 48

\* The names written in Value declarations. A name is known by its length,
\* by whether all its characters are word characters, and by a number that
\* tells names of the same length and kind apart; there is one empty name.
ValueNames ==
  {nm \in [len : {0, 1, MAX_NAME_LEN, MAX_NAME_LEN + 1}, word : BOOLEAN, id : 1..2] :
     nm.len = 0 => (nm.word /\ nm.id = 1)}

\* The attributes of the class TextFSMOptions that GetOption can return
\* and that make an option when called with the Value: the five options
\* and their base class.
OptionClasses == {"Required", "Filldown", "Fillup", "Key", "List", "OptionBase"}

\* The attributes of TextFSMOptions that are no option class: calling
\* them with the Value raises a TypeError.
OtherAttributes == {"GetOption", "ValidOptions"}

\* The option names written in Value declarations.
OptionNames == OptionClasses \cup OtherAttributes \cup {"required", "Bogus", ""}

\* The option lists written in Value declarations: none, one option, or two
\* of Required, List and required.
OptionLists ==
  {<<>>} \cup {<<o>> : o \in OptionNames}
         \cup {<<a, b>> : a, b \in {"Required", "List", "required"}}

\* The patterns written in Value declarations, as sequences of characters;
\* x stands for an ordinary character.
Regexes == {
  <<"(", "x", ")">>,
  <<"(", ")">>,
  <<"(", "x", "(", "x", ")", ")">>,
  <<"(", "x", "(", "x", ")", ")", ")", "x">>,
  <<"x", "(", "x", ")">>,
  <<"(", "x", ")", "x", ")">>,
  <<"(", "x", "\\", ")", "x", ")">>,
  <<"(", "x", "x", "\\", ")">>,
  <<"(", "x", ")", "x", "\\", ")">>,
  <<"(", "x", "[", "(", "]", "x", ")">>,
  <<"(", "x", "\\", "[", ")", "\\", "]", "x", ")">>,
  <<"(", "\\", "(", "x", "\\", ")", ")">>,
  <<"(", "[", ")", "]", ")">>,
  <<"(", "(", "x", ")">> }

\* The pattern (x).
PlainRegex == <<"(", "x", ")">>

\* A line of the template: 'Value <options> <name> <regex>', a comment, a
\* blank line, or other text.
NoName == [len |-> 0, word |-> TRUE, id |-> 1]
TemplateLine(kind, name, options, regex) ==
  [kind |-> kind, name |-> name, options |-> options, regex |-> regex]

\* The one-letter name a.
PlainName == [len |-> 1, word |-> TRUE, id |-> 1]

\* The Value declarations read: any name with no options and the pattern
\* (x), and the name a with any option list or with any pattern.
ValueDecls ==
  {[name |-> nm, options |-> <<>>, regex |-> PlainRegex] : nm \in ValueNames}
  \cup {[name |-> PlainName, options |-> o, regex |-> PlainRegex] : o \in OptionLists}
  \cup {[name |-> PlainName, options |-> <<>>, regex |-> r] : r \in Regexes}

\* Mutant of NameFits: a name of MAX_NAME_LEN characters is too long.
NameFits_OneLess(name) == name.len < MAX_NAME_LEN

\* TextFSMValue.Parse: len(self.name) > self.max_name_len raises.
NameFits(name) == name.len <= MAX_NAME_LEN

\* TextFSMValue._AddOption for one option name, "ok" or what is raised:
\* the name is among the options added before, getattr finds no such
\* attribute of TextFSMOptions, or the attribute is no option class.
AddOption(added, name) ==
  IF name \in added THEN "Duplicate option"
  ELSE IF name \notin OptionClasses \cup OtherAttributes THEN "Unknown option"
  ELSE IF name \notin OptionClasses THEN "TypeError"
  ELSE "ok"

\* TextFSMValue.Parse: for option in options.split(','): self._AddOption(option)
\* stops at the first option that raises.
AddOptions(options) ==
  LET outcome(k) == AddOption({options[j] : j \in 1..(k - 1)}, options[k])
      bad == {k \in DOMAIN options : outcome(k) # "ok"}
  IN IF bad = {} THEN "ok"
     ELSE outcome(CHOOSE k \in bad : \A j \in bad : k <= j)

\* self.regex.count(ch)
Count(regex, ch) == Cardinality({i \in DOMAIN regex : regex[i] = ch})

\* TextFSMValue.Parse: re.match(r'^\(.*\)$', self.regex) and
\* self.regex.count('(') == self.regex.count(')')
RegexContained(regex) ==
  /\ Len(regex) >= 2 /\ regex[1] = "(" /\ regex[Len(regex)] = ")"
  /\ Count(regex, "(") = Count(regex, ")")

\* value.name in self.header
InHeader(f, name) == \E i \in 1..Len(f.values) : f.values[i].name = name

\* TextFSMTemplateError with the number of the template line.
TemplateError(what, line_num) ==
  [raised |-> TRUE, text |-> <<what, " Line ", ToString(line_num), ".">>]

\* Mutant of Seek: the read position stays where it is.
Seek_Stays(t, offset) == t

\* template.seek(offset)
Seek(t, offset) == [t EXCEPT !.pos = offset]

\* The FSM object at the start of TextFSM.__init__, before _Parse: no
\* Values, no states, no current state.
NewFSM ==
  [values |-> <<>>, states |-> 0, cur_state |-> "", cur_state_name |-> "",
   result |-> <<>>]

\* TextFSM(template) is called with a template file of which nothing is
\* known yet.
TemplateInit ==
  /\ fsm = NewFSM
  /\ pc = "variables"
  /\ line = TemplateLine("none", NoName, <<>>, <<>>)
  /\ rule_idx = 0
  /\ remaining = 0
  /\ eof = TRUE
  /\ error = NoError
  /\ used = 0
  /\ last_call = "init"
  /\ ended = FALSE
  /\ filldown_last = <<>>
  /\ list_acc = <<>>
  /\ returned = NoReturn
  /\ template = NoTemplate
  /\ table = NoTable
  /\ parts = <<>>
  /\ objects = <<>>
  /\ pager = <<>>
  /\ match_index_pairs = <<>>
  /\ INDEX = <<>>

\* for line in template: the next line of the file is ln. A line that was
\* read before (template.lines) is read again after a seek; a line past
\* those is any line, and is kept in template.lines from then on.
ReadLine(ln) ==
  IF template.pos < Len(template.lines)
    THEN /\ template.lines[template.pos + 1] = ln
         /\ template' = [template EXCEPT !.pos = @ + 1]
    ELSE /\ template.pos = Len(template.lines)
         /\ template.states = 0 /\ ~template.complete
         /\ Len(template.lines) < MaxTemplateLines
         /\ template' = [template EXCEPT !.lines = Append(@, ln), !.pos = @ + 1]

\* for line in template: the file has nothing left to read.
Exhausted ==
  /\ template.pos >= Len(template.lines)
  /\ template.states # 0 => template.pos > Len(template.lines)
  /\ template' = [template EXCEPT !.complete = TRUE]

\* _ParseFSMVariables reads a line that starts with 'Value ': Parse adds
\* the options, checks the name and the pattern; then the name is looked up
\* in the header.
ValueLine ==
  /\ pc = "variables"
  /\ used' = used + 1
  /\ \E d \in ValueDecls :
       /\ ReadLine(TemplateLine("Value", d.name, d.options, d.regex))
       /\ line' = TemplateLine("Value", d.name, d.options, d.regex)
       /\ IF AddOptions(d.options) = "TypeError"
            THEN /\ error' = [raised |-> TRUE, text |-> <<"TypeError">>]
                 /\ pc' = "type_error"
                 /\ fsm' = fsm
          ELSE IF AddOptions(d.options) # "ok"
            THEN /\ error' = TemplateError(AddOptions(d.options), used')
                 /\ pc' = "template_error"
                 /\ fsm' = fsm
          ELSE IF ~NameFits(d.name)
            THEN /\ error' = TemplateError("Invalid Value name or name too long.", used')
                 /\ pc' = "template_error"
                 /\ fsm' = fsm
          ELSE IF ~RegexContained(d.regex)
            THEN /\ error' = TemplateError("Value must be contained within a '()' pair.", used')
                 /\ pc' = "template_error"
                 /\ fsm' = fsm
          ELSE IF InHeader(fsm, d.name)
            THEN /\ error' = TemplateError("Duplicate declarations for Value.", used')
                 /\ pc' = "template_error"
                 /\ fsm' = fsm
          ELSE /\ fsm' = [fsm EXCEPT !.values = Append(@, TextFSMValue(d.name, d.options))]
               /\ UNCHANGED <<pc, error>>
  /\ UNCHANGED <<rule_idx, remaining, eof, last_call, ended, filldown_last,
                 list_acc, returned>>
  /\ UNCHANGED table
  /\ UNCHANGED parts
  /\ UNCHANGED objects
  /\ UNCHANGED pager
  /\ UNCHANGED match_index_pairs
  /\ UNCHANGED INDEX

\* _ParseFSMVariables reads a comment line and skips it.
CommentLine ==
  /\ pc = "variables"
  /\ used' = used + 1
  /\ ReadLine(TemplateLine("comment", NoName, <<>>, <<>>))
  /\ line' = TemplateLine("comment", NoName, <<>>, <<>>)
  /\ UNCHANGED <<fsm, pc, rule_idx, remaining, eof, error, last_call, ended,
                 filldown_last, list_acc, returned>>
  /\ UNCHANGED table
  /\ UNCHANGED parts
  /\ UNCHANGED objects
  /\ UNCHANGED pager
  /\ UNCHANGED match_index_pairs
  /\ UNCHANGED INDEX

\* _ParseFSMVariables reads a blank line: the Value block is over.
BlankLine ==
  /\ pc = "variables"
  /\ used' = used + 1
  /\ ReadLine(TemplateLine("blank", NoName, <<>>, <<>>))
  /\ line' = TemplateLine("blank", NoName, <<>>, <<>>)
  /\ pc' = "states"
  /\ UNCHANGED <<fsm, rule_idx, remaining, eof, error, last_call, ended,
                 filldown_last, list_acc, returned>>
  /\ UNCHANGED table
  /\ UNCHANGED parts
  /\ UNCHANGED objects
  /\ UNCHANGED pager
  /\ UNCHANGED match_index_pairs
  /\ UNCHANGED INDEX

\* _ParseFSMVariables reads a line of text that is no Value declaration.
TextLine ==
  /\ pc = "variables"
  /\ used' = used + 1
  /\ ReadLine(TemplateLine("text", NoName, <<>>, <<>>))
  /\ line' = TemplateLine("text", NoName, <<>>, <<>>)
  /\ error' = IF fsm.values = <<>>
                 THEN [raised |-> TRUE, text |-> <<"No Value definitions found.">>]
                 ELSE TemplateError("Expected blank line after last Value entry.", used')
  /\ pc' = "template_error"
  /\ UNCHANGED <<fsm, rule_idx, remaining, eof, last_call, ended,
                 filldown_last, list_acc, returned>>
  /\ UNCHANGED table
  /\ UNCHANGED parts
  /\ UNCHANGED objects
  /\ UNCHANGED pager
  /\ UNCHANGED match_index_pairs
  /\ UNCHANGED INDEX

\* _ParseFSMVariables comes to the end of the template.
EndOfTemplate ==
  /\ pc = "variables"
  /\ Exhausted
  /\ line' = TemplateLine("none", NoName, <<>>, <<>>)
  /\ pc' = "states"
  /\ UNCHANGED <<fsm, rule_idx, remaining, eof, error, used, last_call, ended,
                 filldown_last, list_acc, returned>>
  /\ UNCHANGED table
  /\ UNCHANGED parts
  /\ UNCHANGED objects
  /\ UNCHANGED pager
  /\ UNCHANGED match_index_pairs
  /\ UNCHANGED INDEX

\* What _ParseFSMState and _ValidateFSM raise on state definitions that do
\* not pass their checks.
StatesError == [raised |-> TRUE, text |-> <<"Invalid state definitions.">>]

\* The rest of _Parse and of __init__, on the state definitions k that
\* follow the Value block (their rules name their groups themselves and
\* refer to no Value): _ParseFSMState until no state is left, _ValidateFSM,
\* then Reset().
ParseStates(k) ==
  /\ line' = TemplateLine("states", NoName, <<>>, <<>>)
  /\ IF ValidRules(Templates[k]) /\ ValidateFSM(Templates[k])
       THEN /\ fsm' = TextFSM(fsm.values, k)
            /\ pc' = "compiled"
            /\ error' = error
       ELSE /\ error' = StatesError
            /\ pc' = "template_error"
            /\ fsm' = fsm

\* _Parse reads the state definitions to the end of the file.
StatesBlock ==
  /\ pc = "states"
  /\ template.pos = Len(template.lines)
  /\ IF template.states # 0
       THEN /\ ParseStates(template.states)
            /\ template' = [template EXCEPT !.pos = @ + 1]
       ELSE /\ ~template.complete
            /\ \E k \in DOMAIN Templates :
                 /\ ParseStates(k)
                 /\ template' = [template EXCEPT !.states = k, !.pos = @ + 1,
                                                 !.complete = TRUE]
  /\ UNCHANGED <<rule_idx, remaining, eof, used, last_call, ended,
                 filldown_last, list_acc, returned>>
  /\ UNCHANGED table
  /\ UNCHANGED parts
  /\ UNCHANGED objects
  /\ UNCHANGED pager
  /\ UNCHANGED match_index_pairs
  /\ UNCHANGED INDEX

\* _Parse finds no state definitions: the file has nothing left to read,
\* and _ValidateFSM raises Missing state 'Start'.
NoStates ==
  /\ pc = "states"
  /\ Exhausted
  /\ line' = TemplateLine("none", NoName, <<>>, <<>>)
  /\ error' = [raised |-> TRUE, text |-> <<"Missing state 'Start'.">>]
  /\ pc' = "template_error"
  /\ UNCHANGED <<fsm, rule_idx, remaining, eof, used, last_call, ended,
                 filldown_last, list_acc, returned>>
  /\ UNCHANGED table
  /\ UNCHANGED parts
  /\ UNCHANGED objects
  /\ UNCHANGED pager
  /\ UNCHANGED match_index_pairs
  /\ UNCHANGED INDEX

\* What a call of the constructor comes to: the FSM, or the error raised.
Outcome(f, err) ==
  IF err.raised THEN [raised |-> TRUE, error |-> err]
  ELSE [raised |-> FALSE, values |-> f.values, states |-> f.states]

\* TextFSM.__init__: finally: template.seek(0); then the constructor
\* returns the FSM or the error goes on to the caller.
Finally ==
  /\ pc \in {"compiled", "template_error", "type_error"}
  /\ template' = Seek(template, 0)
  /\ pc' = IF pc = "compiled" THEN "returned" ELSE "raised"
  /\ returned' = Outcome(fsm, error)
  /\ UNCHANGED <<fsm, line, rule_idx, remaining, eof, error, used, last_call,
                 ended, filldown_last, list_acc>>
  /\ UNCHANGED table
  /\ UNCHANGED parts
  /\ UNCHANGED objects
  /\ UNCHANGED pager
  /\ UNCHANGED match_index_pairs
  /\ UNCHANGED INDEX

\* TextFSM(template) is called a second time with the same file.
SecondTextFSM ==
  /\ pc \in {"returned", "raised"}
  /\ last_call = "init"
  /\ last_call' = "TextFSM"
  /\ fsm' = NewFSM
  /\ used' = 0
  /\ error' = NoError
  /\ line' = TemplateLine("none", NoName, <<>>, <<>>)
  /\ pc' = "variables"
  /\ UNCHANGED <<rule_idx, remaining, eof, ended, filldown_last, list_acc,
                 returned, template>>
  /\ UNCHANGED table
  /\ UNCHANGED parts
  /\ UNCHANGED objects
  /\ UNCHANGED pager
  /\ UNCHANGED match_index_pairs
  /\ UNCHANGED INDEX

TemplateNext ==
  \/ ValueLine
  \/ CommentLine
  \/ BlankLine
  \/ TextLine
  \/ EndOfTemplate
  \/ StatesBlock
  \/ NoStates
  \/ Finally
  \/ SecondTextFSM

SpecTemplate == TemplateInit /\ [][TemplateNext]_vars

\* --------------------------------------- rule lines and their printing

\* TextFSMRule.LINE_OP, TextFSMRule.RECORD_OP
LINE_OP == {"Continue", "Next", "Error"}
RECORD_OP == {"Clear", "Clearall", "Record", "NoRecord"}

\* The pieces of a rule line: a space, the regular expression text ^x, the
\* arrow, the dot, the operators, state names and a quoted message. A line
\* is a sequence of pieces.
Words == LINE_OP \cup RECORD_OP \cup {"Start", "b", "End"}

\* What follows the arrow in the rule lines read: nothing, an operator, a
\* line and a record operator, a new state, an operator and a new state,
\* with one space or two in front, or an operator right after the arrow.
Actions ==
  {<<>>}
  \cup {<<" ", op>> : op \in LINE_OP \cup RECORD_OP}
  \cup {<<" ", " ", op>> : op \in {"Next", "Record"}}
  \cup {<<op>> : op \in {"Next", "Record"}}
  \cup {<<" ", ln, ".", rec>> : ln \in LINE_OP, rec \in {"Record", "NoRecord"}}
  \cup {<<" ", ns>> : ns \in {"Start", "b", "End"} \cup QuotedMessages}
  \cup {<<" ", op, " ", ns>> : op \in {"Next", "Continue", "Error", "Record"},
                               ns \in {"Start", "b"} \cup QuotedMessages}
  \cup {<<" ", "Next", ".", "Record", " ", " ", "Start">>}

\* What stands before the last arrow of the rule lines read, or is the
\* whole rule: the text ^x, with a space after it, or with an arrow in it.
Matches ==
  {<<"^x">>, <<"^x", " ">>, <<"^x", " ", "->", " ", "b">>,
   <<"^x", " ", "->", " ", "Start">>, <<"^x", " ", "->", " ", "Record">>}

\* The rule lines read: two spaces, the match, and perhaps an arrow and
\* what follows it.
RuleLines ==
  {<<" ", " ">> \o m : m \in {<<"^x">>, <<"^x", " ", "->", " ", "b">>}}
  \cup {<<" ", " ">> \o m \o <<" ", "->">> \o act : m \in Matches, act \in Actions}

\* line.strip()
RECURSIVE Strip(_)
Strip(l) ==
  IF l = <<>> THEN l
  ELSE IF l[1] = " " THEN Strip(Tail(l))
  ELSE IF l[Len(l)] = " " THEN Strip(SubSeq(l, 1, Len(l) - 1))
  ELSE l

\* A run of white space is matched by one \s+: the text with each run of
\* spaces made one space.
RECURSIVE Collapse(_)
Collapse(l) ==
  IF Len(l) < 2 THEN l
  ELSE IF l[1] = " " /\ l[2] = " " THEN Collapse(Tail(l))
  ELSE <<l[1]>> \o Collapse(Tail(l))

\* MATCH_ACTION, (?P<match>.*)(\s->(?P<action>.*)): the places of a space
\* followed by the arrow; the greedy .* takes the match up to the last one.
ArrowAt(l) == {j \in 1..(Len(l) - 1) : l[j] = " " /\ l[j + 1] = "->"}
LastArrow(l) == CHOOSE j \in ArrowAt(l) : \A k \in ArrowAt(l) : k <= j

\* NEWSTATE_RE, \w+|\".*\"
IsNewState(piece) == piece \in Words \cup QuotedMessages

\* (\s+NEWSTATE)?$ on the action from piece i on.
NewStateFrom(act, i) ==
  IF i > Len(act) THEN [ok |-> TRUE, new_state |-> ""]
  ELSE IF Len(act) = i + 1 /\ act[i] = " " /\ IsNewState(act[i + 1])
    THEN [ok |-> TRUE, new_state |-> act[i + 1]]
  ELSE [ok |-> FALSE, new_state |-> ""]

NoMatch == [ok |-> FALSE, line_op |-> "", record_op |-> "", new_state |-> ""]

\* ACTION_RE: a line operator, perhaps with a record operator, and perhaps
\* a new state.
ACTION_RE(act) ==
  IF Len(act) >= 2 /\ act[1] = " " /\ act[2] \in LINE_OP
    THEN LET rec == Len(act) >= 4 /\ act[3] = "." /\ act[4] \in RECORD_OP
             t == NewStateFrom(act, IF rec THEN 5 ELSE 3)
         IN IF t.ok
              THEN [ok |-> TRUE, line_op |-> act[2],
                    record_op |-> IF rec THEN act[4] ELSE "",
                    new_state |-> t.new_state]
              ELSE NoMatch
    ELSE NoMatch

\* ACTION2_RE: a record operator and perhaps a new state.
ACTION2_RE(act) ==
  IF Len(act) >= 2 /\ act[1] = " " /\ act[2] \in RECORD_OP
       /\ NewStateFrom(act, 3).ok
    THEN [ok |-> TRUE, line_op |-> "", record_op |-> act[2],
          new_state |-> NewStateFrom(act, 3).new_state]
    ELSE NoMatch

\* ACTION3_RE: perhaps a new state.
ACTION3_RE(act) ==
  IF NewStateFrom(act, 1).ok
    THEN [ok |-> TRUE, line_op |-> "", record_op |-> "",
          new_state |-> NewStateFrom(act, 1).new_state]
    ELSE NoMatch

\* TextFSMRule.__init__ on a rule line: the rule [match, line_op,
\* record_op, new_state], ok when no TextFSMTemplateError is raised.
TextFSMRule(rule_line) ==
  LET l == Strip(rule_line) IN
  IF l = <<>>
    THEN [ok |-> FALSE, match |-> l, line_op |-> "", record_op |-> "",
          new_state |-> ""]
  ELSE IF ArrowAt(l) = {}
    THEN [ok |-> TRUE, match |-> l, line_op |-> "", record_op |-> "",
          new_state |-> ""]
  ELSE LET act == Collapse(SubSeq(l, LastArrow(l) + 2, Len(l)))
           action_re == IF ACTION_RE(act).ok THEN ACTION_RE(act)
                        ELSE IF ACTION2_RE(act).ok THEN ACTION2_RE(act)
                        ELSE ACTION3_RE(act)
       IN [ok |-> action_re.ok /\ ValidRule(action_re),
           match |-> SubSeq(l, 1, LastArrow(l) - 1),
           line_op |-> action_re.line_op, record_op |-> action_re.record_op,
           new_state |-> action_re.new_state]

\* _ValidateFSM on the rule of the only state, Start: the new state of a
\* rule that is no Error rule is none, End, EOF or a state of the template.
JumpsToState(rule) ==
  rule.line_op = "Error" \/ rule.new_state \in {"", "End", "EOF", "Start"}

\* TextFSMRule.__str__
RuleStr(rule) ==
  LET dot == IF rule.line_op # "" /\ rule.record_op # "" THEN <<".">> ELSE <<>>
      operation == (IF rule.line_op # "" THEN <<rule.line_op>> ELSE <<>>)
                   \o dot
                   \o (IF rule.record_op # "" THEN <<rule.record_op>> ELSE <<>>)
      new_state == IF rule.new_state = "" THEN <<>>
                   ELSE IF operation # <<>> THEN <<" ", rule.new_state>>
                   ELSE <<rule.new_state>>
  IN IF operation = <<>> /\ new_state = <<>>
       THEN <<" ", " ">> \o rule.match
       ELSE <<" ", " ">> \o rule.match \o <<" ", "->", " ">> \o operation \o new_state

\* How many times an FSM is printed and its text compiled.
MaxPrints == 2

\* The FSM object before the rule line is read: the state Start without
\* rules.
NoRules == [NewFSM EXCEPT !.states = [Start |-> <<>>]]

\* A template with the state Start and one rule line in it is about to be
\* compiled; nothing has been printed.
StrInit ==
  /\ line \in RuleLines
  /\ fsm = NoRules
  /\ pc = "source"
  /\ rule_idx = 0
  /\ remaining = 0
  /\ eof = TRUE
  /\ error = NoError
  /\ used = 0
  /\ last_call = "init"
  /\ ended = FALSE
  /\ filldown_last = <<>>
  /\ list_acc = <<>>
  /\ returned = <<>>
  /\ template = NoTemplate
  /\ table = NoTable
  /\ parts = <<>>
  /\ objects = <<>>
  /\ pager = <<>>
  /\ match_index_pairs = <<>>
  /\ INDEX = <<>>

\* TextFSM(template): _ParseFSMState makes the rule of the line and
\* _ValidateFSM checks its new state.
CompileRule ==
  /\ pc = "source"
  /\ LET rule == TextFSMRule(line) IN
       IF rule.ok /\ JumpsToState(rule)
         THEN /\ fsm' = [NoRules EXCEPT !.states = [Start |-> <<rule>>],
                                       !.cur_state = "Start",
                                       !.cur_state_name = "Start"]
              /\ pc' = "compiled"
              /\ error' = NoError
         ELSE /\ fsm' = NoRules
              /\ pc' = "template_error"
              /\ error' = StatesError
  /\ UNCHANGED <<line, rule_idx, remaining, eof, used, last_call, ended,
                 filldown_last, list_acc, returned, template>>
  /\ UNCHANGED table
  /\ UNCHANGED parts
  /\ UNCHANGED objects
  /\ UNCHANGED pager
  /\ UNCHANGED match_index_pairs
  /\ UNCHANGED INDEX

\* str(fsm): the rule lines of the state Start.
PrintFSM ==
  /\ pc = "compiled"
  /\ used < MaxPrints
  /\ used' = used + 1
  /\ returned' = RuleStr(fsm.states.Start[1])
  /\ last_call' = "__str__"
  /\ pc' = "printed"
  /\ UNCHANGED <<fsm, line, rule_idx, remaining, eof, error, ended,
                 filldown_last, list_acc, template>>
  /\ UNCHANGED table
  /\ UNCHANGED parts
  /\ UNCHANGED objects
  /\ UNCHANGED pager
  /\ UNCHANGED match_index_pairs
  /\ UNCHANGED INDEX

\* TextFSM(StringIO(str(fsm))): the printed text is the next source.
CompilePrinted ==
  /\ pc = "printed"
  /\ line' = returned
  /\ pc' = "source"
  /\ UNCHANGED <<fsm, rule_idx, remaining, eof, error, used, last_call, ended,
                 filldown_last, list_acc, returned, template>>
  /\ UNCHANGED table
  /\ UNCHANGED parts
  /\ UNCHANGED objects
  /\ UNCHANGED pager
  /\ UNCHANGED match_index_pairs
  /\ UNCHANGED INDEX

StrNext ==
  \/ CompileRule
  \/ PrintFSM
  \/ CompilePrinted

SpecStr == StrInit /\ [][StrNext]_vars

\* ------------------------------------------------------------- TextTable

\* Rows a table holds, and mutator calls made on one table.
MaxRows == 2
MaxTableOps == 4

\* Column names and the texts of cells; '' is AddColumn's default.
Columns == {"a", "b", "Beer"}
Cells == {"1", "2"}
Defaults == {"", "1"}

\* A Row: its values in header order, its row number, the table it is in.
Row(values, row, owner) == [values |-> values, row |-> row, table |-> owner]

\* A TextTable: the object (id), its header and its rows t[1]..t[size].
TextTable(id, header, rows) == [id |-> id, header |-> header, rows |-> rows]

\* rows given by their values, numbered as Append numbers them
RowsOf(id, rowvalues) ==
  [k \in 1..Len(rowvalues) |-> Row(rowvalues[k], k, id)]

HasColumn(header, name) == \E k \in 1..Len(header) : header[k] = name
ColumnIndex(header, name) == CHOOSE k \in 1..Len(header) : header[k] = name

\* row[name]
RowValue(t, r, name) == r.values[ColumnIndex(t.header, name)]

\* A mapping is a sequence of <<key, value>> pairs with distinct keys.
MapHas(mapping, key) == \E i \in 1..Len(mapping) : mapping[i][1] = key
MapGet(mapping, key) ==
  mapping[CHOOSE i \in 1..Len(mapping) : mapping[i][1] = key][2]

\* Append(row) with a mapping: every header key is needed, extras are ignored.
MappingFits(header, mapping) ==
  \A k \in 1..Len(header) : MapHas(mapping, header[k])
FromMapping(header, mapping) ==
  [k \in 1..Len(header) |-> MapGet(mapping, header[k])]

\* Append(row): a new Row of this table at the end, numbered size + 1.
TableAppend(t, values) ==
  [t EXCEPT !.rows = Append(t.rows, Row(values, Len(t.rows) + 1, t.id))]

\* Mutant of Renumber: the rows after the removed one keep their numbers.
Renumber_Keeps(r, k) == r

\* the row that moves to place k takes k as its number
Renumber(r, k) == [r EXCEPT !.row = k]

\* Remove(index): 1-based removal, the rows that follow are re-indexed.
Remove(t, index) ==
  [t EXCEPT !.rows =
     [k \in 1..(Len(t.rows) - 1) |->
        IF k < index THEN t.rows[k] ELSE Renumber(t.rows[k + 1], k)]]

\* list.insert(p, x) for 0 <= p <= len
InsertAt(q, p, x) == SubSeq(q, 1, p) \o <<x>> \o SubSeq(q, p + 1, Len(q))

\* Where AddColumn puts the column: -1 is the end, another negative index
\* counts from the end, and the place must be one of the header's.
ColumnPlace(header, col_index) ==
  IF col_index = -1 THEN Len(header)
  ELSE IF col_index < 0 THEN Len(header) + col_index ELSE col_index
ColumnPlaceOk(header, col_index) ==
  \/ col_index = -1
  \/ ColumnPlace(header, col_index) \in 0..(Len(header) - 1)

\* AddColumn(name, default, col_index): every row is widened by default.
AddColumn(t, name, default, col_index) ==
  LET p == ColumnPlace(t.header, col_index) IN
    [t EXCEPT !.header = InsertAt(t.header, p, name),
              !.rows = [k \in 1..Len(t.rows) |->
                          [t.rows[k] EXCEPT !.values = InsertAt(@, p, default)]]]

\* the columns of other that self lacks, in other's order
ExtendWith(t, other) ==
  SelectSeq(other.header, LAMBDA c : ~HasColumn(t.header, c))

\* row r of self and row r2 of other have equal values at keys
KeysMatch(t, r, other, r2, keys) ==
  \A i \in 1..Len(keys) :
    RowValue(t, r, keys[i]) = RowValue(other, r2, keys[i])

\* the rows of other are tried in order from row j on; 0 when none matches
RECURSIVE MatchFrom(_, _, _, _, _)
MatchFrom(t, r, other, keys, j) ==
  IF j > Len(other.rows) THEN 0
  ELSE IF KeysMatch(t, r, other, other.rows[j], keys) THEN j
  ELSE MatchFrom(t, r, other, keys, j + 1)

\* Mutant of Partner: the last row of other that matches is taken.
Partner_Last(t, r, other, keys) ==
  IF keys = <<>>
    THEN IF r.row <= Len(other.rows) THEN r.row ELSE 0
    ELSE LET M == {j \in 1..Len(other.rows) :
                     KeysMatch(t, r, other, other.rows[j], keys)}
         IN IF M = {} THEN 0 ELSE CHOOSE j \in M : \A i \in M : i <= j

\* The row of other that extend joins to row r of self: the row with the
\* same row number when there are no keys, else the first with equal keys.
Partner(t, r, other, keys) ==
  IF keys = <<>>
    THEN IF r.row <= Len(other.rows) THEN r.row ELSE 0
    ELSE MatchFrom(t, r, other, keys, 1)

\* AddColumn for each column of q in turn
RECURSIVE AddColumns(_, _)
AddColumns(t, q) ==
  IF q = <<>> THEN t
  ELSE AddColumns(AddColumn(t, Head(q), "", -1), Tail(q))

\* extend(other, keys): self gets the columns it lacks, and each row of
\* self gets in them the values of its partner in other, if it has one.
extend(t, other, keys) ==
  LET new == ExtendWith(t, other)
      wide == AddColumns(t, new)
      Fill(r) ==
        LET j == Partner(t, r, other, keys) IN
          IF j = 0 THEN r
          ELSE [r EXCEPT !.values =
                  [k \in 1..Len(wide.header) |->
                     IF k <= Len(t.header) THEN r.values[k]
                     ELSE RowValue(other, other.rows[j], wide.header[k])]]
  IN [wide EXCEPT !.rows = [k \in 1..Len(wide.rows) |-> Fill(wide.rows[k])]]

\* the order of cell texts
Rank(c) == CASE c = "" -> 0 [] c = "1" -> 1 [] c = "2" -> 2

\* row values v come before row values w: the first differing cell decides
RECURSIVE Before(_, _)
Before(v, w) ==
  IF v = <<>> \/ w = <<>> THEN v = <<>> /\ w # <<>>
  ELSE IF Head(v) # Head(w) THEN Rank(Head(v)) < Rank(Head(w))
  ELSE Before(Tail(v), Tail(w))

\* what sort compares: the values at the key columns, or the whole row
SortKey(t, r, by) ==
  IF by = <<>> THEN r.values
  ELSE [i \in 1..Len(by) |-> RowValue(t, r, by[i])]

\* r is put into the sorted rows q behind every row that is not after it
RECURSIVE InsertSorted(_, _, _, _, _)
InsertSorted(t, q, r, by, reverse) ==
  IF q = <<>> THEN <<r>>
  ELSE LET last == q[Len(q)]
           after == IF reverse
                      THEN Before(SortKey(t, last, by), SortKey(t, r, by))
                      ELSE Before(SortKey(t, r, by), SortKey(t, last, by))
       IN IF after
            THEN Append(InsertSorted(t, SubSeq(q, 1, Len(q) - 1), r, by, reverse),
                        last)
            ELSE Append(q, r)

RECURSIVE SortedRows(_, _, _, _)
SortedRows(t, n, by, reverse) ==
  IF n = 0 THEN <<>>
  ELSE InsertSorted(t, SortedRows(t, n - 1, by, reverse), t.rows[n], by,
                    reverse)

\* sort(key, reverse): a stable sort of the rows, which are then numbered
\* by their new places.
sort(t, by, reverse) ==
  LET q == SortedRows(t, Len(t.rows), by, reverse) IN
    [t EXCEPT !.rows = [k \in 1..Len(q) |-> [q[k] EXCEPT !.row = k]]]

\* -- the calls

\* the rows given to Append as sequences: of every length up to three
RowValues ==
  {<<>>} \cup {<<x>> : x \in Cells} \cup {<<x, y>> : x, y \in Cells}
  \cup {<<x, y, z>> : x, y, z \in Cells}

\* the rows given to Append as mappings
Mappings ==
  {<<<<"a", x>>>> : x \in Cells}
  \cup {<<<<"b", x>>, <<"a", y>>>> : x, y \in Cells}
  \cup {<<<<"a", x>>, <<"Beer", y>>, <<"b", x>>>> : x, y \in Cells}

\* the value lists of the rows of another table with n columns
OtherRows(n) ==
  LET V == IF n = 1 THEN {<<x>> : x \in Cells}
           ELSE {<<x, y>> : x, y \in Cells}
  IN {<<>>} \cup {<<v>> : v \in V} \cup {<<v, w>> : v, w \in V}

\* the tables handed to extend
OtherTables ==
  {TextTable("other", <<"Beer">>, RowsOf("other", q)) : q \in OtherRows(1)}
  \cup {TextTable("other", <<"a", "Beer">>, RowsOf("other", q)) :
          q \in OtherRows(2)}
  \cup {TextTable("other", <<"b", "a">>, RowsOf("other", q)) :
          q \in OtherRows(2)}

KeyLists == {<<>>, <<"a">>, <<"a", "b">>, <<"Beer">>}

\* the arguments of the last extend
NoArgs == [other |-> TextTable("other", <<>>, <<>>), keys |-> <<>>]

Raised(name) == [raised |-> TRUE, text |-> <<name>>]

\* An empty table with one or two columns.
TableInit ==
  /\ table \in {TextTable("self", h, <<>>) : h \in {<<"a">>, <<"a", "b">>}}
  /\ line = NoArgs
  /\ fsm = NewFSM
  /\ pc = "table"
  /\ rule_idx = 0
  /\ remaining = 0
  /\ eof = TRUE
  /\ error = NoError
  /\ used = 0
  /\ last_call = "init"
  /\ ended = FALSE
  /\ filldown_last = <<>>
  /\ list_acc = <<>>
  /\ returned = NoReturn
  /\ template = NoTemplate
  /\ parts = <<>>
  /\ objects = <<>>
  /\ pager = <<>>
  /\ match_index_pairs = <<>>
  /\ INDEX = <<>>

\* what a call on the table leaves alone
TableFrame ==
  UNCHANGED <<fsm, pc, rule_idx, remaining, eof, ended, filldown_last,
              list_acc, returned, template, parts, objects, pager, match_index_pairs, INDEX>>

\* t.Append(row) with a sequence: TypeError unless it has the header's length.
AppendSequence ==
  /\ pc = "table" /\ used < MaxTableOps /\ Len(table.rows) < MaxRows
  /\ \E values \in RowValues :
       IF Len(values) = Len(table.header)
         THEN table' = TableAppend(table, values) /\ error' = NoError
         ELSE table' = table /\ error' = Raised("TypeError")
  /\ line' = NoArgs /\ used' = used + 1 /\ last_call' = "Append"
  /\ TableFrame

\* t.Append(row) with a mapping: TypeError unless it has every header key.
AppendMapping ==
  /\ pc = "table" /\ used < MaxTableOps /\ Len(table.rows) < MaxRows
  /\ \E mapping \in Mappings :
       IF MappingFits(table.header, mapping)
         THEN /\ table' = TableAppend(table, FromMapping(table.header, mapping))
              /\ error' = NoError
         ELSE table' = table /\ error' = Raised("TypeError")
  /\ line' = NoArgs /\ used' = used + 1 /\ last_call' = "Append"
  /\ TableFrame

\* t.Remove(index) of a row the table has
RemoveRow ==
  /\ pc = "table" /\ used < MaxTableOps
  /\ \E index \in 1..Len(table.rows) : table' = Remove(table, index)
  /\ error' = NoError
  /\ line' = NoArgs /\ used' = used + 1 /\ last_call' = "Remove"
  /\ TableFrame

\* t.AddColumn(name, default, col_index): TableError for a name the header
\* has, IndexError for a place it has not.
AddColumnCall ==
  /\ pc = "table" /\ used < MaxTableOps
  /\ \E name \in Columns, default \in Defaults, col_index \in -3..2 :
       IF HasColumn(table.header, name)
         THEN table' = table /\ error' = Raised("TableError")
       ELSE IF ~ColumnPlaceOk(table.header, col_index)
         THEN table' = table /\ error' = Raised("IndexError")
       ELSE table' = AddColumn(table, name, default, col_index)
            /\ error' = NoError
  /\ line' = NoArgs /\ used' = used + 1 /\ last_call' = "AddColumn"
  /\ TableFrame

\* t.extend(other, keys): IndexError for a key that is not a column of both.
ExtendCall ==
  /\ pc = "table" /\ used < MaxTableOps
  /\ \E other \in OtherTables, keys \in KeyLists :
       /\ IF \A i \in 1..Len(keys) : /\ HasColumn(table.header, keys[i])
                                      /\ HasColumn(other.header, keys[i])
            THEN table' = extend(table, other, keys) /\ error' = NoError
            ELSE table' = table /\ error' = Raised("IndexError")
       /\ line' = [other |-> other, keys |-> keys]
  /\ used' = used + 1 /\ last_call' = "extend"
  /\ TableFrame

\* t.sort(key, reverse): by the whole row or by column a.
SortCall ==
  /\ pc = "table" /\ used < MaxTableOps
  /\ \E by \in {<<>>, <<"a">>}, reverse \in BOOLEAN :
       table' = sort(table, by, reverse)
  /\ error' = NoError
  /\ line' = NoArgs /\ used' = used + 1 /\ last_call' = "sort"
  /\ TableFrame

TableNext ==
  \/ AppendSequence
  \/ AppendMapping
  \/ RemoveRow
  \/ AddColumnCall
  \/ ExtendCall
  \/ SortCall

SpecTable == TableInit /\ [][TableNext]_vars

\* ------------------------------------------------------------ IndexTable

\* Rows of the index file.
MaxIndexRows == 2

\* The patterns of the index cells and the texts of attributes, as their
\* characters; ".*" stands for the pattern that matches every text.
Patterns == {<<".*">>, <<"a">>, <<"a", "b">>}
Texts == {<<"a">>, <<"a", "b">>, <<"b">>}

\* A cell of the compiled table: a RegexCell, or None for a column that
\* preCompile has marked as not to be matched on.
RegexCell(pattern) == [skip |-> FALSE, pattern |-> pattern]
SkipCell == [skip |-> TRUE, pattern |-> <<>>]
CompiledCells == {SkipCell} \cup {RegexCell(p) : p \in Patterns}

\* cell.match(text): the pattern matches at the start of the text
CellMatch(cell, text) ==
  \/ cell.pattern = <<".*">>
  \/ /\ Len(cell.pattern) <= Len(text)
     /\ SubSeq(text, 1, Len(cell.pattern)) = cell.pattern

\* the compiled tables: every cell of every row a RegexCell or None
CompiledTables ==
  LET V == {<<c, v>> : c, v \in CompiledCells} IN
    {TextTable("compiled", <<"Command", "Vendor">>, RowsOf("compiled", q)) :
       q \in {<<>>} \cup {<<x>> : x \in V}
             \cup (IF MaxIndexRows >= 2 THEN {<<x, y>> : x, y \in V} ELSE {})
             \cup (IF MaxIndexRows >= 3
                     THEN {<<x, y, z>> : x, y, z \in V} ELSE {})}

\* the attributes handed to GetRowMatch: Hostname is no column of the index
AttributeOf(key) == {<<>>} \cup {<<<<key, s>>>> : s \in Texts}
Attributes ==
  {x \o y \o z : x \in AttributeOf("Vendor"), y \in AttributeOf("Command"),
                 z \in AttributeOf("Hostname")}

\* the attribute key is not matched on in row r: it is no column, or the
\* row's cell in that column is None
Skipped(t, r, key) ==
  \/ ~HasColumn(t.header, key)
  \/ RowValue(t, r, key).skip

\* row r matches: every attribute that is a non-skipped column matches
RowMatches(t, r, attributes) ==
  \A i \in 1..Len(attributes) :
    \/ Skipped(t, r, attributes[i][1])
    \/ CellMatch(RowValue(t, r, attributes[i][1]), attributes[i][2])

\* the rows are tried in order from row k on
RECURSIVE RowMatchFrom(_, _, _)
RowMatchFrom(t, attributes, k) ==
  IF k > Len(t.rows) THEN 0
  ELSE IF RowMatches(t, t.rows[k], attributes) THEN t.rows[k].row
  ELSE RowMatchFrom(t, attributes, k + 1)

\* Mutant of GetRowMatch: the last row that matches is returned.
GetRowMatch_Last(t, attributes) ==
  LET M == {k \in 1..Len(t.rows) : RowMatches(t, t.rows[k], attributes)} IN
    IF M = {} THEN 0 ELSE CHOOSE k \in M : \A m \in M : m <= k

\* GetRowMatch(attributes): the number of the first matching row, or 0.
GetRowMatch(t, attributes) == RowMatchFrom(t, attributes, 1)

ReturnRow(n) == [kind |-> "row", rows |-> <<n>>, dicts |-> <<>>]

\* An IndexTable has been read; nothing has been looked up.
IndexInit ==
  /\ table \in CompiledTables
  /\ line = <<>>
  /\ fsm = NewFSM
  /\ pc = "index"
  /\ rule_idx = 0
  /\ remaining = 0
  /\ eof = TRUE
  /\ error = NoError
  /\ used = 0
  /\ last_call = "init"
  /\ ended = FALSE
  /\ filldown_last = <<>>
  /\ list_acc = <<>>
  /\ returned = NoReturn
  /\ template = NoTemplate
  /\ parts = <<>>
  /\ objects = <<>>
  /\ pager = <<>>
  /\ match_index_pairs = <<>>
  /\ INDEX = <<>>

\* index.GetRowMatch(attributes)
GetRowMatchCall ==
  /\ pc = "index"
  /\ \E attributes \in Attributes :
       /\ line' = attributes
       /\ returned' = ReturnRow(GetRowMatch(table, attributes))
  /\ last_call' = "GetRowMatch"
  /\ UNCHANGED <<fsm, pc, rule_idx, remaining, eof, error, used, ended,
                 filldown_last, list_acc, template, table>>
  /\ UNCHANGED parts
  /\ UNCHANGED objects
  /\ UNCHANGED pager
  /\ UNCHANGED match_index_pairs
  /\ UNCHANGED INDEX

IndexNext == GetRowMatchCall

SpecIndex == IndexInit /\ [][IndexNext]_vars

\* ------------------------------------------------- a text parsed in parts

\* Lines of a text that is parsed in two parts.
MaxSplitLines == 3

\* what _CheckLine or ParseText leaves: the FSM, and whether it raised
Done(f) == [f |-> f, raised |-> FALSE]
RaisedIn(f) == [f |-> f, raised |-> TRUE]

\* _CheckLine(line) from rule k of the current state on.
RECURSIVE CheckLineFrom(_, _, _)
CheckLineFrom(f, ln, k) ==
  IF k > Len(CurRules(f)) THEN Done(f)
  ELSE LET rule == CurRules(f)[k] IN
       IF ~CheckRule(rule, ln) THEN CheckLineFrom(f, ln, k + 1)
       ELSE LET assigned == AssignGroupsFrom(f, GroupDict(f, rule), ln, 1)
                g == RecordOperation(assigned, rule)
            IN CASE rule.line_op = "Error" -> RaisedIn(g)
                 [] rule.line_op = "Continue" -> CheckLineFrom(g, ln, k + 1)
                 [] OTHER -> Done(Transition(g, rule))

\* ParseText's loop over the lines from line k on: it breaks on End or EOF
\* (r is what _CheckLine has left for line k).
RECURSIVE ParseLinesFrom(_, _, _)
RECURSIVE AfterLine(_, _, _)
AfterLine(r, lines, k) ==
  IF r.raised \/ r.f.cur_state_name \in {"End", "EOF"} THEN r
  ELSE ParseLinesFrom(r.f, lines, k + 1)

ParseLinesFrom(f, lines, k) ==
  IF k > Len(lines) THEN Done(f)
  ELSE AfterLine(CheckLineFrom(f, lines[k], 1), lines, k)

\* the implicit EOF Record after the loop (r is what the loop has left)
AfterLines(r, eofarg) ==
  IF r.raised THEN r
  ELSE Done(IF ImplicitRecord(r.f, eofarg) THEN AppendRecord(r.f) ELSE r.f)

\* ParseText(text, eof) as one step: the loop, then the implicit EOF Record.
ParseTextOf(f, lines, eofarg) == AfterLines(ParseLinesFrom(f, lines, 1), eofarg)

\* the texts of up to MaxSplitLines lines, cut in two at any line
Texts123 ==
  {<<>>} \cup {<<x>> : x \in Lines} \cup {<<x, y>> : x, y \in Lines}
  \cup (IF MaxSplitLines >= 3 THEN {<<x, y, z>> : x, y, z \in Lines} ELSE {})
  \cup (IF MaxSplitLines >= 4
          THEN {<<w, x, y, z>> : w, x, y, z \in Lines} ELSE {})

SplitTexts ==
  UNION {{<<SubSeq(t, 1, n), SubSeq(t, n + 1, Len(t))>> : n \in 0..Len(t)} :
           t \in Texts123}

\* A compiled template and a text in two parts; nothing has been parsed.
SplitInit ==
  /\ \E o1 \in BooOptions, o2 \in HooOptions, st \in DOMAIN StateTables :
       fsm = TextFSM(<<TextFSMValue("boo", o1), TextFSMValue("hoo", o2)>>, st)
  /\ parts \in SplitTexts
  /\ pc = "first"
  /\ line = ""
  /\ rule_idx = 0
  /\ remaining = 0
  /\ eof = TRUE
  /\ error = NoError
  /\ used = 0
  /\ last_call = "init"
  /\ ended = FALSE
  /\ filldown_last = <<>>
  /\ list_acc = <<>>
  /\ returned = NoReturn
  /\ template = NoTemplate
  /\ table = NoTable
  /\ objects = <<>>
  /\ pager = <<>>
  /\ match_index_pairs = <<>>
  /\ INDEX = <<>>

\* what a ParseText call that has left r leaves of the object, and where
\* the caller goes on
Parsed(r, on) ==
  /\ fsm' = r.f
  /\ pc' = IF r.raised THEN "raised" ELSE on
  /\ returned' = IF r.raised THEN NoReturn ELSE ReturnRows(r.f.result)

\* t.ParseText(first, eof=False)
ParseFirst ==
  /\ pc = "first"
  /\ Parsed(ParseTextOf(fsm, parts[1], FALSE), "second")
  /\ eof' = FALSE
  /\ last_call' = "ParseText"
  /\ UNCHANGED <<line, rule_idx, remaining, error, used, ended, filldown_last,
                 list_acc, template, table, parts>>
  /\ UNCHANGED objects
  /\ UNCHANGED pager
  /\ UNCHANGED match_index_pairs
  /\ UNCHANGED INDEX

\* t.ParseText(second), with no Reset since the first part
ParseSecond ==
  /\ pc = "second"
  /\ Parsed(ParseTextOf(fsm, parts[2], TRUE), "done")
  /\ eof' = TRUE
  /\ last_call' = "ParseText"
  /\ UNCHANGED <<line, rule_idx, remaining, error, used, ended, filldown_last,
                 list_acc, template, table, parts>>
  /\ UNCHANGED objects
  /\ UNCHANGED pager
  /\ UNCHANGED match_index_pairs
  /\ UNCHANGED INDEX

SplitNext ==
  \/ ParseFirst
  \/ ParseSecond

SpecSplit == SplitInit /\ [][SplitNext]_vars

\* ------------------------------------------- two objects of one template

\* Calls made on the two objects together.
MaxCalls == 3

\* The attributes of a TextFSM object that hold its state.
FSMAttributes == {"values", "states", "cur_state", "cur_state_name", "result"}

\* Mutant of Holder: _result is held by the class, which is the first object's.
Holder_ClassResult(i, attr) == IF attr = "result" THEN 1 ELSE i

\* The object that holds attribute attr of object i: __init__ and Reset
\* assign every attribute to self, and each Value and each option is made
\* anew by _ParseFSMVariables for its FSM.
Holder(i, attr) == i

\* object i as its methods see it
View(objs, i) == [a \in FSMAttributes |-> objs[Holder(i, a)][a]]

\* the objects after a method has left object i as f
Store(objs, i, f) ==
  [j \in 1..2 |->
     [a \in FSMAttributes |-> IF Holder(i, a) = j THEN f[a] ELSE objs[j][a]]]

\* the texts handed to ParseText: of no line or of one
ShortTexts == {<<>>} \cup {<<x>> : x \in Lines}

\* objects.fsms: the two objects; objects.alone: each object as it is when
\* the calls on the other one are left out; objects.called: the object of
\* the last call.
TwoInit ==
  /\ \E o1 \in BooOptions, o2 \in HooOptions, st \in DOMAIN StateTables :
       LET f == TextFSM(<<TextFSMValue("boo", o1), TextFSMValue("hoo", o2)>>, st)
       IN /\ objects = [fsms |-> <<f, f>>, alone |-> <<f, f>>, called |-> 1]
          /\ fsm = f
  /\ pc = "two"
  /\ line = ""
  /\ rule_idx = 0
  /\ remaining = 0
  /\ eof = TRUE
  /\ error = NoError
  /\ used = 0
  /\ last_call = "init"
  /\ ended = FALSE
  /\ filldown_last = <<>>
  /\ list_acc = <<>>
  /\ returned = NoReturn
  /\ template = NoTemplate
  /\ table = NoTable
  /\ parts = <<>>
  /\ pager = <<>>
  /\ match_index_pairs = <<>>
  /\ INDEX = <<>>

\* what a ParseText call on object i that has left r leaves; a is what the
\* same call leaves of the object alone
ParsedBy(i, r, a) ==
  /\ objects' = [fsms |-> Store(objects.fsms, i, r.f),
                 alone |-> [objects.alone EXCEPT ![i] = a.f],
                 called |-> i]
  /\ returned' = IF r.raised THEN NoReturn ELSE ReturnRows(r.f.result)
  /\ error' = [raised |-> r.raised, text |-> <<>>]
  /\ parts' = IF a.raised THEN <<"raised">> ELSE <<"rows", a.f.result>>

\* t.ParseText(text, eof) on one of the objects; returned is what the call
\* returns and error whether it raised, and parts is what the call returns
\* on the object alone.
ParseTextCall ==
  /\ pc = "two" /\ used < MaxCalls
  /\ \E i \in 1..2, lines \in ShortTexts, e \in BOOLEAN :
       /\ ParsedBy(i, ParseTextOf(View(objects.fsms, i), lines, e),
                   ParseTextOf(objects.alone[i], lines, e))
       /\ eof' = e
  /\ used' = used + 1
  /\ last_call' = "ParseText"
  /\ UNCHANGED <<fsm, pc, line, rule_idx, remaining, ended, filldown_last,
                 list_acc, template, table>>
  /\ UNCHANGED pager
  /\ UNCHANGED match_index_pairs
  /\ UNCHANGED INDEX

\* t.Reset() on one of the objects
ResetCall ==
  /\ pc = "two" /\ used < MaxCalls
  /\ \E i \in 1..2 :
       objects' = [fsms |-> Store(objects.fsms, i, ResetFSM(View(objects.fsms, i))),
                   alone |-> [objects.alone EXCEPT ![i] = ResetFSM(@)],
                   called |-> i]
  /\ returned' = NoReturn
  /\ error' = NoError
  /\ parts' = <<>>
  /\ used' = used + 1
  /\ last_call' = "Reset"
  /\ UNCHANGED <<fsm, pc, line, rule_idx, remaining, eof, ended, filldown_last,
                 list_acc, template, table>>
  /\ UNCHANGED pager
  /\ UNCHANGED match_index_pairs
  /\ UNCHANGED INDEX

TwoNext ==
  \/ ParseTextCall
  \/ ResetCall

SpecTwo == TwoInit /\ [][TwoNext]_vars

\* ------------------------------------------------------------------ Pager

\* Lines of the text of a Pager, as LineWrap(...).splitlines() gives them,
\* and calls of Page on one Pager.
MaxTextLines == 4
MaxPages == 3

\* The keys _GetChar can return; "other" is any key without a meaning of
\* its own, the space bar among them.
Keys == {"q", "g", "n", "DOWN_ARROW", "UP_ARROW", "b", "other"}

Min(a, b) == IF a < b THEN a ELSE b
Max(a, b) == IF a < b THEN b ELSE a

\* Mutant of Display: a page ends where it starts when lines were asked for.
Display_Empty(p, start, length) ==
  LET total_length == p.text
      from == Max(0, start)
      end == IF length = 0 THEN total_length ELSE Min(from, total_length)
  IN [from |-> from, end |-> end, total_length |-> total_length,
      raised |-> total_length = 0]

\* Pager._Display(start, length): the lines from start up to end are
\* printed; end / len(text_list) raises ZeroDivisionError on an empty text.
Display(p, start, length) ==
  LET total_length == p.text
      from == Max(0, start)
      end == IF length = 0 THEN total_length
             ELSE Min(from + length, total_length)
  IN [from |-> from, end |-> end, total_length |-> total_length,
      raised |-> total_length = 0]

\* Pager(text) followed by SetLines(num_lines): text is the number of lines
\* of _text, lines is _lines; end, total_length, only_quit and streamed
\* (more_text was given) are the locals of Page, wish the last key, out the
\* lines the last _Display printed, from out[1] up to out[2].
NewPager(text, lines) ==
  [text |-> text, first_line |-> 0, lines |-> Max(2, lines), at |-> "idle",
   end |-> 0, total_length |-> 0, only_quit |-> FALSE, streamed |-> FALSE,
   wish |-> "", out |-> <<0, 0>>]

PagerInit ==
  /\ pager \in {NewPager(t, n) : t \in 0..MaxTextLines, n \in 1..3}
  /\ fsm = NewFSM
  /\ pc = "pager"
  /\ line = ""
  /\ rule_idx = 0
  /\ remaining = 0
  /\ eof = TRUE
  /\ error = NoError
  /\ used = 0
  /\ last_call = "init"
  /\ ended = FALSE
  /\ filldown_last = <<>>
  /\ list_acc = <<>>
  /\ returned = NoReturn
  /\ template = NoTemplate
  /\ table = NoTable
  /\ parts = <<>>
  /\ objects = <<>>
  /\ match_index_pairs = <<>>
  /\ INDEX = <<>>

PagerFrame ==
  UNCHANGED <<fsm, pc, line, rule_idx, remaining, eof, ended, filldown_last,
              list_acc, returned, template, table, parts, objects, match_index_pairs, INDEX>>

\* p.Page(more_text) up to its first prompt
Page ==
  /\ pager.at = "idle" /\ used < MaxPages
  /\ \E more \in 0..(MaxTextLines - pager.text) :
       LET p == [pager EXCEPT !.text = @ + more, !.streamed = more > 0]
           d == Display(p, p.first_line, p.lines)
       IN IF d.raised
            THEN /\ pager' = [p EXCEPT !.out = <<d.from, d.end>>]
                 /\ error' = Raised("ZeroDivisionError")
            ELSE /\ pager' = [p EXCEPT !.at = "prompt", !.end = d.end,
                                       !.total_length = d.total_length,
                                       !.only_quit = d.total_length < p.lines,
                                       !.wish = "",
                                       !.out = <<d.from, d.end>>]
                 /\ error' = NoError
  /\ used' = used + 1
  /\ last_call' = "Page"
  /\ PagerFrame

\* first_line after a navigation key, bound to be within the text
Bound(p, first_line) ==
  Min(p.total_length - p.lines, Max(0, first_line))

\* the body of Page's loop for a key that is not q
Navigate(p, wish) ==
  IF p.only_quit THEN p
  ELSE LET rest == Display(p, p.end, 0)
           moved ==
             CASE wish = "g" -> rest.end - p.lines
               [] wish \in {"n", "DOWN_ARROW"} -> p.first_line + 1
               [] wish = "UP_ARROW" -> p.first_line - 1
               [] wish = "b" -> p.first_line - p.lines
               [] OTHER -> p.first_line + p.lines
           q == [p EXCEPT !.first_line = Bound(p, moved)]
           d == Display(q, q.first_line, q.lines)
       IN [q EXCEPT !.end = d.end, !.total_length = d.total_length,
                    !.out = <<d.from, d.end>>]

\* the user presses a key at the prompt: q leaves the loop and sets
\* first_line to end, any other key goes round the loop
Key ==
  /\ pager.at = "prompt"
  /\ \E wish \in Keys :
       pager' = IF wish = "q"
                  THEN [pager EXCEPT !.at = "idle", !.first_line = pager.end,
                                     !.wish = wish]
                  ELSE [Navigate(pager, wish) EXCEPT !.wish = wish]
  /\ UNCHANGED <<error, used, last_call>>
  /\ PagerFrame
  /\ UNCHANGED match_index_pairs
  /\ UNCHANGED INDEX

\* p.Reset()
PagerReset ==
  /\ pager.at = "idle"
  /\ pager' = [pager EXCEPT !.first_line = 0]
  /\ error' = NoError
  /\ last_call' = "Reset"
  /\ UNCHANGED used
  /\ PagerFrame
  /\ UNCHANGED match_index_pairs
  /\ UNCHANGED INDEX

PagerNext ==
  \/ Page
  \/ Key
  \/ PagerReset

SpecPager == PagerInit /\ [][PagerNext]_vars

\* The user answers every prompt: _GetChar returns.
SpecPagerLive == PagerInit /\ [][PagerNext]_vars /\ WF_vars(Key)

\* ------------------------------------------------------------------ VisualDebugger.merge_indexes

\* Positions in a line of text, and index pairs of one line.
MaxPos == 3
MaxPairs == 4

\* StartStopIndex(start, end, value); value takes no part in __eq__ nor in
\* overlapping, and is left out.
StartStopIndex(start, end) == [start |-> start, end |-> end]

IndexPairs == {StartStopIndex(s, e) : s \in 0..MaxPos, e \in 0..MaxPos + 1} \cap
              {p \in [start : 0..MaxPos, end : 0..MaxPos + 1] : p.start <= p.end}

RECURSIVE PairLists(_)
PairLists(n) ==
  IF n = 0 THEN {<<>>}
  ELSE PairLists(n - 1) \cup
       {Append(l, p) : l \in {k \in PairLists(n - 1) : Len(k) = n - 1},
                       p \in IndexPairs}

\* overlapping(index_a, index_b)
overlapping(index_a, index_b) ==
  \/ index_a.end > index_b.start /\ index_a.start < index_b.end
  \/ index_a.start < index_b.end /\ index_b.start < index_a.end
  \/ index_a.start < index_b.start /\ index_a.end > index_b.end
  \/ index_b.start < index_a.start /\ index_b.end > index_a.end

\* merge_pairs(index_a, index_b)
merge_pairs(index_a, index_b) ==
  StartStopIndex(IF index_a.start < index_b.start THEN index_a.start
                 ELSE index_b.start,
                 IF index_a.end < index_b.end THEN index_b.end
                 ELSE index_a.end)

\* list.remove(x): the first item equal to x is taken out
ListRemove(l, x) ==
  LET k == CHOOSE k \in 1..Len(l) :
             l[k] = x /\ \A j \in 1..(k - 1) : l[j] # x
  IN SubSeq(l, 1, k - 1) \o SubSeq(l, k + 1, Len(l))

\* One turn of the outer loop of merge_indexes for the item at place i of
\* the list, which changes under the loop.
MergeStep(l, i) ==
  LET pair == l[i]
      rest == ListRemove(l, pair)
      hits == {k \in 1..Len(rest) : overlapping(pair, rest[k])}
  IN IF hits = {} THEN Append(rest, pair)
     ELSE LET check_pair == rest[CHOOSE k \in hits : \A j \in hits : k <= j]
          IN Append(ListRemove(rest, check_pair),
                    merge_pairs(pair, check_pair))

\* The outer loop: the list iterator goes by place, and stops at the first
\* place beyond the end of the list as it then is.
RECURSIVE MergeFrom(_, _)
MergeFrom(l, i) ==
  IF i > Len(l) THEN l ELSE MergeFrom(MergeStep(l, i), i + 1)

merge_indexes(l) == MergeFrom(l, 1)

MergeInit ==
  /\ match_index_pairs \in {[given |-> l, list |-> l, merged |-> FALSE] :
                              l \in PairLists(MaxPairs)}
  /\ pager = <<>>
  /\ fsm = NewFSM
  /\ pc = "merge"
  /\ line = ""
  /\ rule_idx = 0
  /\ remaining = 0
  /\ eof = TRUE
  /\ error = NoError
  /\ used = 0
  /\ last_call = "init"
  /\ ended = FALSE
  /\ filldown_last = <<>>
  /\ list_acc = <<>>
  /\ returned = NoReturn
  /\ template = NoTemplate
  /\ table = NoTable
  /\ parts = <<>>
  /\ objects = <<>>
  /\ INDEX = <<>>

\* self.merge_indexes(match_index_pairs)
MergeCall ==
  /\ ~match_index_pairs.merged
  /\ match_index_pairs' =
       [match_index_pairs EXCEPT !.list = merge_indexes(@), !.merged = TRUE]
  /\ UNCHANGED <<pager, fsm, pc, line, rule_idx, remaining, eof, error, used,
                 last_call, ended, filldown_last, list_acc, returned,
                 template, table, parts, objects>>
  /\ UNCHANGED INDEX

MergeNext == MergeCall

SpecMerge == MergeInit /\ [][MergeNext]_vars

\* ------------------------------------------------------------------ CliTable index cache

\* CliTable objects constructed in one process.
MaxInstances == 4

\* paths of index files
IndexPaths == {"index1", "index2"}

\* The IndexTable parsed from the index file at a path; parse tells the
\* tables of two parses of one file apart.
ParsedIndex(path, parse) == [path |-> path, parse |-> parse]

NoIndex == [path |-> "", parse |-> 0]

\* Mutant of LoadIndex: the file is parsed whatever the cache holds.
LoadIndex_Always(c, path) ==
  LET t == ParsedIndex(path, c.parses[path] + 1)
  IN [cache |-> [c.cache EXCEPT ![path] = t],
      parses |-> [c.parses EXCEPT ![path] = @ + 1],
      index |-> t]

\* The index of a CliTable for a path: the cached IndexTable, or on a miss
\* the table parsed from the file, which is written to the cache.
LoadIndex(c, path) ==
  IF c.cache[path] # NoIndex
    THEN [cache |-> c.cache, parses |-> c.parses, index |-> c.cache[path]]
    ELSE LET t == ParsedIndex(path, c.parses[path] + 1)
         IN [cache |-> [c.cache EXCEPT ![path] = t],
             parses |-> [c.parses EXCEPT ![path] = @ + 1],
             index |-> t]

CacheInit ==
  /\ INDEX = [cache |-> [p \in IndexPaths |-> NoIndex],
              parses |-> [p \in IndexPaths |-> 0],
              instances |-> <<>>]
  /\ match_index_pairs = <<>>
  /\ pager = <<>>
  /\ fsm = NewFSM
  /\ pc = "clitable"
  /\ line = ""
  /\ rule_idx = 0
  /\ remaining = 0
  /\ eof = TRUE
  /\ error = NoError
  /\ used = 0
  /\ last_call = "init"
  /\ ended = FALSE
  /\ filldown_last = <<>>
  /\ list_acc = <<>>
  /\ returned = NoReturn
  /\ template = NoTemplate
  /\ table = NoTable
  /\ parts = <<>>
  /\ objects = <<>>

CacheFrame ==
  UNCHANGED <<match_index_pairs, pager, fsm, pc, line, rule_idx, remaining,
              eof, error, used, last_call, ended, filldown_last, list_acc,
              returned, template, table, parts, objects>>

\* CliTable(index_file, template_dir) begins: the object exists, its index
\* is not read yet.
Construct ==
  /\ Len(INDEX.instances) < MaxInstances
  /\ \E path \in IndexPaths :
       INDEX' = [INDEX EXCEPT !.instances =
                   Append(@, [path |-> path, at |-> "begun", index |-> NoIndex])]
  /\ CacheFrame

\* The construction of one object reads the index: the lookup in the cache
\* and the single write on a miss are one step.
ReadIndex ==
  /\ \E i \in 1..Len(INDEX.instances) :
       /\ INDEX.instances[i].at = "begun"
       /\ LET r == LoadIndex(INDEX, INDEX.instances[i].path)
          IN INDEX' = [cache |-> r.cache, parses |-> r.parses,
                       instances |-> [INDEX.instances EXCEPT
                                        ![i].at = "indexed",
                                        ![i].index = r.index]]
  /\ CacheFrame

CacheNext ==
  \/ Construct
  \/ ReadIndex

SpecCache == CacheInit /\ [][CacheNext]_vars

\* ------------------------------------------------------------------ claims

Values == fsm.values
NValues == Len(fsm.values)
Required(i) == HasOption(fsm.values[i], "Required")
Filldown(i) == HasOption(fsm.values[i], "Filldown")
Fillup(i) == HasOption(fsm.values[i], "Fillup")
IsList(i) == HasOption(fsm.values[i], "List")
EOFDeclared == "EOF" \in DOMAIN StateTables[fsm.states]

\* C1: after Reset(), in whatever state it was called, the current state is
\* Start, result is empty, every Value's value is None, every Filldown
\* memory is None and every List accumulator is empty.
C1_ResetClears ==
  (pc = "idle" /\ last_call = "Reset") =>
    /\ fsm.cur_state = "Start"
    /\ fsm.cur_state_name = "Start"
    /\ fsm.result = <<>>
    /\ \A i \in 1..NValues :
         /\ fsm.values[i].value = None
         /\ fsm.values[i].myvar = None
         /\ fsm.values[i].lvalue = <<>>

\* Reset() has returned after a ParseText that an Error rule aborted, and
\* all the calls and lines of the bound have been used.
C1_Witness ==
  pc = "idle" /\ last_call = "Reset" /\ error.raised /\ used = MaxWork

\* C2: no row of result has an empty cell (None, '' or []) in the column
\* of a Value with the Required option, at any point of any parse.
C2_RequiredCellsNonEmpty ==
  \A r \in 1..Len(fsm.result) : \A i \in 1..NValues :
    Required(i) => Truthy(fsm.result[r][i])

\* One ParseText of the single line "b" on state table 3 (rule: hoo -> Record
\* End), hoo Required: the Record rule has emitted the row.
C2_Witness ==
  /\ pc = "idle" /\ used = 2 /\ fsm.states = 3 /\ NValues = 2
  /\ Required(2)
  /\ Len(fsm.result) = 1 /\ fsm.result[1][2].t = "str" /\ fsm.result[1][2].s = "b"

\* C3: at the end of input ParseText performs the implicit Record (once) if
\* and only if eof is true, no EOF state is declared and the current state
\* is not End; in every other case the FSM, and so result, is left as it is.
C3_ImplicitRecordIff ==
  [][pc = "eof" =>
       IF eof /\ ~EOFDeclared /\ fsm.cur_state_name # "End"
         THEN /\ fsm' = AppendRecord(fsm)
              /\ Len(fsm'.result) \in {Len(fsm.result), Len(fsm.result) + 1}
         ELSE fsm' = fsm]_vars

\* One ParseText of the single line "a" on state table 3 (boo -> State1, no
\* Record): the row was added by the implicit Record at the end of input.
C3_Witness ==
  /\ pc = "idle" /\ used = 2 /\ fsm.states = 3 /\ last_call = "ParseText"
  /\ fsm.cur_state_name = "State1"
  /\ Len(fsm.result) = 1 /\ fsm.result[1][1].t = "str" /\ fsm.result[1][1].s = "a"

\* C4: once a rule of this call has moved the FSM to End or EOF, no further
\* line is read or matched and nothing changes a Value or result, except
\* the implicit Record at the end, which End suppresses and which follows
\* an EOF reached by a transition (no EOF state declared, eof true).
C4_EndStopsParse ==
  [][/\ ended' => pc' = "eof"
     /\ ended =>
          /\ pc = "eof" /\ pc' = "idle" /\ remaining' = 0
          /\ fsm' = fsm \/ fsm' = AppendRecord(fsm)
          /\ fsm.cur_state_name = "End" => fsm' = fsm
          /\ (fsm.cur_state_name = "EOF" /\ ~EOFDeclared /\ eof)
               => fsm' = AppendRecord(fsm)]_vars

\* A rule has moved the FSM to End while a line of the text is still unread.
C4_Witness ==
  pc = "eof" /\ ended /\ remaining > 0 /\ fsm.cur_state_name = "End"

\* C5: the rules of the current state are tried on a line in declared order
\* from the first one, and a matching rule whose line operator is Next
\* (written or default) ends the line: no later rule is tried on it, and a
\* new state it names is the state whose rules the next line meets.
C5_FirstNextRuleEndsLine ==
  /\ [](pc \in {"rule", "record", "lineop"} =>
          \A j \in 1..(rule_idx - 1) :
            (j <= Len(CurRules(fsm)) /\ CheckRule(CurRules(fsm)[j], line))
              => CurRules(fsm)[j].line_op = "Continue")
  /\ [][/\ (pc = "loop" /\ pc' = "rule") => rule_idx' = 1
        /\ (pc = "rule" /\ pc' = "rule") =>
             /\ ~CheckRule(CurRule, line)
             /\ line' = line /\ rule_idx' = rule_idx + 1 /\ fsm' = fsm
        /\ (pc = "lineop" /\ CurRule.line_op \in {"", "Next"}) =>
             /\ pc' \in {"loop", "eof"}
             /\ fsm'.cur_state =
                  IF CurRule.new_state \in {"", "End", "EOF"}
                    THEN fsm.cur_state ELSE CurRule.new_state
             /\ fsm'.cur_state_name =
                  IF CurRule.new_state = ""
                    THEN fsm.cur_state_name ELSE CurRule.new_state]_vars

\* State table 3, the second line of a text: the first line "a" matched
\* Start's first rule (boo -> State1), no other rule of Start was tried on
\* it, and this line meets the first rule of State1.
C5_Witness ==
  /\ fsm.states = 3 /\ used = 3 /\ pc = "rule" /\ rule_idx = 1
  /\ fsm.cur_state = "State1" /\ NValues = 2
  /\ fsm.values[1].value = Str("a") /\ fsm.values[2].value = None

\* C6: a matching rule with line operator Continue leaves the state as it
\* is after its captures and record operator, and the same line goes on to
\* the rule after it; a line that no rule ends is consumed after the last
\* rule of the state.
C6_ContinueKeepsLine ==
  [][/\ (pc = "lineop" /\ CurRule.line_op = "Continue") =>
          /\ fsm' = fsm
          /\ line' = line /\ rule_idx' = rule_idx + 1 /\ pc' = "rule"
          /\ remaining' = remaining
     /\ (pc = "rule" /\ rule_idx > Len(CurRules(fsm))) =>
          /\ fsm' = fsm
          /\ pc' \in {"loop", "eof"}
          /\ remaining' = remaining]_vars

\* State table 2, line "a": rule 1 (boo, Continue) and rule 2 (hoo,
\* Continue.Record) have both acted on the line, their row is in result, and
\* the line is now at rule 3.
C6_Witness ==
  /\ fsm.states = 2 /\ used = 2 /\ pc = "rule" /\ rule_idx = 3 /\ line = "a"
  /\ fsm.cur_state_name = "Start"
  /\ fsm.result = << <<Str("a"), Str("a")>> >>

\* The cell a row shows for a captured group: None is written as ''.
CellOfGroup(cap, ln) == IF Group(cap, ln) = None THEN Str("") ELSE Group(cap, ln)

\* C7: for a matching rule the captures are assigned first, then the record
\* operator runs, then the line operator: the captures are in the Values
\* when the record operator runs and in the row it emits, and the state
\* changes or the Error is raised only afterwards, leaving Values and result
\* as the record operator left them.
C7_CapturesThenRecordThenLine ==
  /\ [](pc = "record" =>
          \A k \in 1..Len(CurRule.caps) :
            LET i == GetValue(fsm, CurRule.caps[k].name) IN
            i # 0 => fsm.values[i].value = Group(CurRule.caps[k], line))
  /\ [][/\ (pc = "rule" /\ pc' = "record") =>
             /\ fsm'.cur_state_name = fsm.cur_state_name
             /\ fsm'.cur_state = fsm.cur_state
             /\ error' = error
        /\ pc = "record" =>
             /\ pc' = "lineop"
             /\ fsm'.cur_state_name = fsm.cur_state_name
             /\ fsm'.cur_state = fsm.cur_state
             /\ error' = error
             /\ ~error.raised
             /\ CurRule.record_op \notin {"Record", "Clear", "Clearall"}
                  => fsm' = fsm
             /\ CurRule.record_op = "Clearall" =>
                  \A i \in 1..NValues : fsm'.values[i].value = None
             /\ CurRule.record_op = "Clear" =>
                  \A i \in 1..NValues :
                    ~Filldown(i) => fsm'.values[i].value = None
             /\ CurRule.record_op # "Record" => fsm'.result = fsm.result
             /\ (CurRule.record_op = "Record" /\ fsm'.result # fsm.result) =>
                  /\ Len(fsm'.result) = Len(fsm.result) + 1
                  /\ \A k \in 1..Len(CurRule.caps) :
                       LET i == GetValue(fsm, CurRule.caps[k].name)
                           cell == fsm'.result[Len(fsm'.result)][i]
                       IN i # 0 =>
                            IF IsList(i)
                              THEN /\ cell.t = "list" /\ cell.l # <<>>
                                   /\ cell.l[Len(cell.l)] = Group(CurRule.caps[k], line)
                              ELSE cell = CellOfGroup(CurRule.caps[k], line)
        /\ pc = "lineop" =>
             /\ fsm'.values = fsm.values
             /\ fsm'.result = fsm.result
             /\ error'.raised <=> CurRule.line_op = "Error"]_vars

\* State table 2, one ParseText of the single line "c": rule 5 (hoo,
\* Error.Record) has put its capture in the row it emitted, and then
\* ParseText has raised.
C7_Witness ==
  /\ fsm.states = 2 /\ used = 2 /\ pc = "idle" /\ error.raised /\ NValues = 2
  /\ fsm.result = << <<Str(""), Str("c")>> >>

\* A row shows None as ''.
CellOf(val) == IF val = None THEN Str("") ELSE val

\* This step runs a Record: a Record rule's operator or the implicit Record.
RecordStep ==
  \/ pc = "record" /\ CurRule.record_op = "Record"
  \/ pc = "eof" /\ eof /\ ~EOFDeclared /\ fsm.cur_state_name # "End"

\* C8: in a row, at the moment it is emitted, the column of a Filldown Value
\* without List holds the value last assigned to it since the last Clearall
\* or Reset (empty if none was), whether or not it was assigned since the
\* previous Record or Clear; Clearall erases the memory.
C8_FilldownColumn ==
  [][/\ (RecordStep /\ Len(fsm'.result) = Len(fsm.result) + 1) =>
          \A i \in 1..NValues :
            (Filldown(i) /\ ~IsList(i)) =>
              fsm'.result[Len(fsm'.result)][i] = CellOf(filldown_last[i])
     /\ (pc = "record" /\ CurRule.record_op = "Clearall") =>
          \A i \in 1..NValues :
            fsm'.values[i].myvar = None /\ fsm'.values[i].value = None]_vars

\* State table 1, boo Filldown, one ParseText of "a", "b": the second row,
\* emitted by the rule for hoo, shows the boo of the first line.
C8_Witness ==
  /\ fsm.states = 1 /\ used = 3 /\ NValues = 2
  /\ fsm.values[1].options = <<"Filldown">> /\ fsm.values[2].options = <<>>
  /\ fsm.result = << <<Str("a"), Str("")>>, <<Str("a"), Str("b")>> >>

\* A Required Value is empty: its value is None or '', or it is a List
\* Value with nothing in its list.
RequiredEmpty ==
  \E i \in 1..NValues :
    /\ Required(i)
    /\ IF IsList(i) THEN fsm.values[i].lvalue = <<>>
                    ELSE ~Truthy(fsm.values[i].value)

\* The Record of this step is skipped: a Required option raises SkipRecord.
RecordSkipped == NValues > 0 /\ SaveRecordFrom(fsm, 1, <<>>).skip

\* C9: a Record, explicit or implicit, that is skipped because a Required
\* Value is empty appends no row and leaves the rows of result as they are,
\* clears every Value without Filldown and leaves every Filldown Value with
\* its last assigned value (and a Filldown List with its list).
C9_SkippedRecord ==
  [][(RecordStep /\ (RequiredEmpty \/ RecordSkipped)) =>
       /\ fsm'.result = fsm.result
       /\ \A i \in 1..NValues :
            IF Filldown(i)
              THEN /\ fsm'.values[i].value = filldown_last[i]
                   /\ fsm'.values[i].lvalue = fsm.values[i].lvalue
              ELSE /\ fsm'.values[i].value = None
                   /\ fsm'.values[i].lvalue = <<>>]_vars

\* State table 1, boo Required, hoo Filldown, one ParseText of the line "b"
\* alone: the Record of the rule that captured hoo was skipped, result is
\* empty and hoo has kept "b".
C9_Witness ==
  /\ fsm.states = 1 /\ used = 2 /\ NValues = 2 /\ pc = "lineop"
  /\ Required(1) /\ Filldown(2) /\ ~IsList(2)
  /\ fsm.result = <<>>
  /\ fsm.values[2].value = Str("b") /\ fsm.values[1].value = None

\* The column of Value i in result after a Fillup of val: every row below
\* the last row whose cell is set takes val.
FilledUp(result, i, val) ==
  [r \in 1..Len(result) |->
     IF \A q \in r..Len(result) : ~Truthy(result[q][i])
       THEN [result[r] EXCEPT ![i] = val]
       ELSE result[r]]

\* C10: when a rule match assigns a non-empty string to a Fillup Value, the
\* rows of result from the newest up to, not including, the first row whose
\* cell in that column is set take the string in that column; that row, the
\* rows above it and every other column are unchanged. Any other assignment
\* leaves result unchanged.
C10_Fillup ==
  [][(pc = "rule" /\ pc' = "record") =>
       /\ Len(fsm'.result) = Len(fsm.result)
       /\ \A i \in 1..NValues :
            LET hits == {k \in 1..Len(CurRule.caps) :
                           /\ GetValue(fsm, CurRule.caps[k].name) = i
                           /\ Fillup(i)
                           /\ Truthy(Group(CurRule.caps[k], line))}
            IN \A r \in 1..Len(fsm.result) :
                 fsm'.result[r][i] =
                   IF hits # {}
                     THEN FilledUp(fsm.result, i, Str(line))[r][i]
                     ELSE fsm.result[r][i]]_vars

\* State table 1, boo Fillup, one ParseText of "a", "b", "c": the "c"
\* assigned to boo has filled the second row, whose boo was empty, and has
\* stopped at the first row, whose boo is "a".
C10_Witness ==
  /\ fsm.states = 1 /\ used = 4 /\ NValues = 2 /\ pc = "record" /\ line = "c"
  /\ fsm.values[1].options = <<"Fillup">> /\ fsm.values[2].options = <<>>
  /\ fsm.result = << <<Str("a"), Str("")>>, <<Str("c"), Str("b")>> >>

Contains(text, piece) == \E k \in 1..Len(text) : text[k] = piece

\* C12: when a matching rule has line operator Error, ParseText raises a
\* TextFSMError whose message contains the rule's quoted message, if it has
\* one, the template line number of the rule and the text of the input
\* line, and the call is over: no further line of the text is read.
C12_ErrorRaises ==
  /\ [](error.raised => pc = "idle")
  /\ [][(pc = "lineop" /\ CurRule.line_op = "Error") =>
          /\ error'.raised
          /\ CurRule.new_state # "" => Contains(error'.text, CurRule.new_state)
          /\ Contains(error'.text, ToString(CurRule.line_num))
          /\ Contains(error'.text, line)
          /\ pc' = "idle" /\ remaining' = 0 /\ used' = used]_vars

\* State table 2, the line "c": rule 5 (Error "hello", template line 9)
\* has raised.
C12_Witness ==
  /\ fsm.states = 2 /\ pc = "idle" /\ error.raised
  /\ error.text = <<"Error: ", "\"hello\"", ". Rule Line: ", "9",
                    ". Input Line: ", "c", ".">>

\* C13: when the Error line operator fires the result is discarded: after
\* ParseText has raised, the FSM holds no row, so no row emitted earlier in
\* that parse can come back from a later ParseText call.
C13_ErrorDiscardsResult ==
  (pc = "idle" /\ last_call \in {"ParseText", "ParseTextToDicts"} /\ error.raised)
    => fsm.result = <<>>

C15_NoEmptyRow ==
  \A r \in 1..Len(fsm.result) :
    \E i \in 1..Len(fsm.result[r]) :
      fsm.result[r][i] \notin {Str(""), Lst(<<>>)}

\* Nothing is in the current record: every Value holds None, or is a List
\* Value with an empty list.
NothingToRecord ==
  \A i \in 1..NValues :
    IF IsList(i) THEN fsm.values[i].lvalue = <<>>
                 ELSE fsm.values[i].value = None

\* C15 amended: a Record, explicit or implicit at EOF, adds no row when
\* every Value holds None or an empty list; every row that is added holds
\* a cell that was not None and not an empty list, which may be the empty
\* string that a Value captured.
C15_NoRowOfNothing ==
  [][RecordStep =>
       /\ NothingToRecord => fsm'.result = fsm.result
       /\ Len(fsm'.result) = Len(fsm.result) + 1 =>
            \E i \in 1..NValues :
              fsm'.result[Len(fsm'.result)][i] # Lst(<<>>)
              /\ (fsm'.result[Len(fsm'.result)][i] = Str("")
                    => fsm.values[i].value = Str(""))]_vars

\* ParseText of an empty text on state table 1 with hoo a List Value: the
\* implicit Record, run on None and [], has added no row.
C15_Witness ==
  /\ fsm.states = 1 /\ used = 1 /\ NValues = 2 /\ pc = "idle"
  /\ last_call = "ParseText" /\ IsList(2) /\ ~IsList(1)
  /\ fsm.result = <<>>

\* C16: ParseTextToDicts runs the parse of ParseText and returns the rows
\* ParseText returns (self._result), each as a mapping from the names of
\* the Values, in declaration order, to the cells of the row: as many dicts
\* as rows, in the same order, with the same cells.
C16_DictsAreRows ==
  /\ []((pc = "idle" /\ ~error.raised /\ last_call = "ParseText") =>
          /\ returned.kind = "rows"
          /\ returned.rows = fsm.result)
  /\ []((pc = "idle" /\ ~error.raised /\ last_call = "ParseTextToDicts") =>
          /\ returned.kind = "dicts"
          /\ Len(returned.dicts) = Len(fsm.result)
          /\ \A r \in 1..Len(fsm.result) :
               /\ DOMAIN returned.dicts[r] = {fsm.values[i].name : i \in 1..NValues}
               /\ \A i \in 1..NValues :
                    returned.dicts[r][fsm.values[i].name] = fsm.result[r][i])
  /\ [][pc = "eof" =>
          fsm' = IF eof /\ ~EOFDeclared /\ fsm.cur_state_name # "End"
                   THEN AppendRecord(fsm) ELSE fsm]_vars

\* State table 1, hoo a List Value, ParseTextToDicts of "a", "b": two
\* dicts, one per row.
C16_Witness ==
  /\ fsm.states = 1 /\ used = 3 /\ NValues = 2 /\ pc = "idle"
  /\ last_call = "ParseTextToDicts"
  /\ returned.dicts = << [boo |-> Str("a"), hoo |-> Lst(<<>>)],
                        [boo |-> Str(""), hoo |-> Lst(<<Str("b")>>)] >>

\* The FSM is as Reset leaves it: in Start, no rows, every Value cleared.
Restarted(f) ==
  /\ f.cur_state = "Start" /\ f.cur_state_name = "Start"
  /\ f.result = <<>>
  /\ \A i \in 1..Len(f.values) :
       /\ f.values[i].value = None
       /\ f.values[i].myvar = None
       /\ f.values[i].lvalue = <<>>

\* C17 as claimed: each ParseText call restarts the FSM, so the state a
\* call starts in, and with it the rows it returns, depends only on the text
\* of that call.
C17_EachCallRestarts ==
  [][(pc = "idle" /\ pc' = "loop") => Restarted(fsm')]_vars

\* C17 amended: a ParseText call starts in the state that construction,
\* Reset or the call before it left (current state, Values, rows), rows are
\* only added while it runs, and it returns all the rows of result; only a
\* call that follows construction or Reset starts in Start with no rows and
\* cleared Values.
C17_CallContinues ==
  /\ [][/\ (pc = "idle" /\ pc' = "loop") =>
             /\ fsm' = fsm
             /\ last_call \in {"init", "Reset"} => Restarted(fsm')
        /\ pc # "idle" => Len(fsm'.result) >= Len(fsm.result)]_vars
  /\ []((pc = "idle" /\ ~error.raised /\ last_call = "ParseText")
          => returned.rows = fsm.result)

\* State table 3: a first ParseText of the line "a" has left the FSM in
\* State1 with one row, and the second ParseText starts there.
C17_Witness ==
  /\ fsm.states = 3 /\ pc = "loop" /\ used = 3 /\ remaining = 1
  /\ fsm.cur_state = "State1" /\ Len(fsm.result) = 1

\* The states the template of this FSM declares.
Declared == DOMAIN Templates[fsm.states]

\* C18: for every template that compiles, in every reachable state of the
\* FSM the current state name is Start, a declared state, End or EOF and
\* the rules in use are those of a declared state; Start is declared, no
\* rule that is not an Error rule names an undeclared state, and a declared
\* End or EOF has no rules.
C18_StatesAreDeclared ==
  /\ fsm.cur_state_name \in {"Start", "End", "EOF"} \cup Declared
  /\ fsm.cur_state \in Declared \ {"End", "EOF"}
  /\ "Start" \in Declared
  /\ \A n \in Declared :
       /\ n \in {"End", "EOF"} => Templates[fsm.states][n] = <<>>
       /\ \A k \in 1..Len(Templates[fsm.states][n]) :
            LET rule == Templates[fsm.states][n][k] IN
            rule.line_op # "Error" =>
              rule.new_state \in {"", "End", "EOF"} \cup Declared

\* Template 3, which declares Start, State1 and an empty End: a rule of
\* State1 has moved the FSM to End.
C18_Witness ==
  /\ fsm.states = 3 /\ pc = "eof"
  /\ fsm.cur_state_name = "End" /\ fsm.cur_state = "State1"
  /\ Declared = {"Start", "State1", "End"}

\* The rule combines Continue with a new state, or Next (written or
\* default) with a quoted message.
BadAction(rule) ==
  \/ rule.line_op = "Continue" /\ rule.new_state # ""
  \/ rule.line_op \in {"", "Next"} /\ rule.new_state \in QuotedMessages

\* C19: a template with a rule that combines Continue with a new state, or
\* Next (written or default) with a quoted message, does not compile; hence
\* no rule of the template of an FSM has Continue with a new state, or Next
\* with a quoted message.
C19_RejectedActions ==
  /\ \A t \in 1..Len(Templates) :
       (\E n \in DOMAIN Templates[t] : \E k \in 1..Len(Templates[t][n]) :
          BadAction(Templates[t][n][k]))
         => t \notin DOMAIN StateTables
  /\ \A n \in DOMAIN StateTables[fsm.states] :
       \A k \in 1..Len(StateTables[fsm.states][n]) :
         ~BadAction(StateTables[fsm.states][n][k])

\* Templates 9, 10 and 11 were rejected, and on template 2 a Continue rule,
\* which has no new state, has matched a line and keeps the FSM in Start.
C19_Witness ==
  /\ DOMAIN StateTables \cap {9, 10, 11} = {}
  /\ fsm.states = 2 /\ pc = "rule" /\ rule_idx = 2 /\ line = "b"
  /\ CurRules(fsm)[1].line_op = "Continue" /\ CurRules(fsm)[1].new_state = ""
  /\ fsm.cur_state_name = "Start"

\* The name matches ^\w+$ and is 1 to MAX_NAME_LEN characters long.
WordName(name) == name.word /\ name.len >= 1 /\ name.len <= MAX_NAME_LEN

\* The Value declaration read by this step is accepted: the Value is added
\* and no template error is raised.
Accepted(name) ==
  /\ fsm'.values = Append(fsm.values, TextFSMValue(name, line'.options))
  /\ pc' = "variables" /\ ~error'.raised

\* The options and the pattern of the Value declaration read by this step
\* pass the checks made of them.
OptionsAndPatternPass ==
  AddOptions(line'.options) = "ok" /\ RegexContained(line'.regex)

\* The Value declaration read by this step fails with a template error and
\* declares no Value.
Rejected ==
  pc' = "template_error" /\ error'.raised /\ fsm'.values = fsm.values

RECURSIVE Escaped(_, _)
Escaped(regex, i) ==
  IF i = 1 THEN FALSE
  ELSE regex[i - 1] = "\\" /\ ~Escaped(regex, i - 1)

\* After the first k characters of the pattern a square-bracket class is
\* open.
RECURSIVE InClassAfter(_, _)
InClassAfter(regex, k) ==
  IF k = 0 THEN FALSE
  ELSE IF Escaped(regex, k) THEN InClassAfter(regex, k - 1)
  ELSE IF regex[k] = "[" THEN TRUE
  ELSE IF regex[k] = "]" THEN FALSE
  ELSE InClassAfter(regex, k - 1)

\* The positions of the pattern that hold ch unescaped and outside a
\* square-bracket class.
Counted(regex, ch) ==
  {i \in DOMAIN regex :
     regex[i] = ch /\ ~Escaped(regex, i) /\ ~InClassAfter(regex, i - 1)}

\* The pattern is enclosed in an outermost unescaped ( ) pair and its
\* unescaped parentheses outside square-bracket classes are as many ( as ).
Balanced(regex) ==
  /\ Len(regex) >= 2
  /\ 1 \in Counted(regex, "(") /\ Len(regex) \in Counted(regex, ")")
  /\ Cardinality(Counted(regex, "(")) = Cardinality(Counted(regex, ")"))

\* The options and the name of the Value declaration read by this step pass
\* the checks made of them.
OptionsAndNamePass ==
  /\ AddOptions(line'.options) = "ok"
  /\ NameFits(line'.name) /\ ~InHeader(fsm, line'.name)

\* C21: a Value pattern is accepted exactly when it is enclosed in one
\* outermost unescaped ( ) pair and its unescaped ( and ) outside
\* square-bracket classes are balanced; escaped parentheses and parentheses
\* inside [...] are not counted. Any other pattern fails with a template
\* error.
C21_BalancedPatternsOnly ==
  [][(pc = "variables" /\ line'.kind = "Value" /\ OptionsAndNamePass) =>
       IF Balanced(line'.regex) THEN Accepted(line'.name) ELSE Rejected]_vars

\* The option list names an option other than Required, Filldown, Fillup,
\* Key and List, or names the same option twice.
BadOptions(options) ==
  \/ \E k \in DOMAIN options :
       options[k] \notin {"Required", "Filldown", "Fillup", "Key", "List"}
  \/ \E j, k \in DOMAIN options : j # k /\ options[j] = options[k]

\* C22: a Value declaration whose option list contains a name other than
\* Required, Filldown, Fillup, Key or List, or the same option twice, fails
\* with a template error and declares no Value.
C22_BadOptionsRejected ==
  [][(pc = "variables" /\ line'.kind = "Value" /\ BadOptions(line'.options))
       => Rejected]_vars

\* The option list written in the opposite order.
Reversed(options) ==
  [k \in 1..Len(options) |-> options[Len(options) + 1 - k]]

\* The FSM of the same template with the options of Value i written in the
\* opposite order, in the same state. (Only OnSaveRecord depends on the
\* order of the options, so up to the first Record whose outcome differs the
\* two FSMs go through the same states on the same text.)
Reordered(f, i) == [f EXCEPT !.values[i].options = Reversed(@)]

\* C23: the order in which the options of a Value are written does not
\* affect the rows: at every Record, explicit or implicit, the rows are the
\* ones the FSM with the options of a Value permuted would have.
C23_OptionOrderIrrelevant ==
  [][RecordStep =>
       \A i \in 1..NValues : AppendRecord(Reordered(fsm, i)).result = fsm'.result]_vars

\* C24: compiling a template in which no Value declaration precedes the
\* first blank line fails with a template error, whatever follows the blank
\* line.
C24_NoValuesFails ==
  [][(pc = "states" /\ line.kind = "blank" /\ fsm.values = <<>>)
       => (pc' = "template_error" /\ error'.raised)]_vars

\* C27: after the constructor has returned or raised, the read position of
\* the template file is back at its start; a second TextFSM(template) with
\* the same file comes to what the first came to: the same Values and
\* states, or the same error.
C27_SourceRewound ==
  /\ [](pc \in {"returned", "raised"} => template.pos = 0)
  /\ [][(pc \in {"compiled", "template_error", "type_error"}
           /\ last_call = "TextFSM") => returned' = returned]_vars

\* The second constructor call on a file of a Value declaration, a blank
\* line and state definitions has returned, and the file is at its start.
C27_Witness ==
  /\ pc = "returned" /\ last_call = "TextFSM"
  /\ Len(fsm.values) = 1 /\ Len(template.lines) = 2 /\ template.states # 0
  /\ template.pos = 0

\* C25: printing is idempotent: the printed text of a compiled template
\* compiles too, and the printed text of what it compiles to is the same
\* text.
C25_StrIdempotent ==
  /\ [][(pc = "source" /\ last_call = "__str__") => pc' = "compiled"]_vars
  /\ [][(pc = "compiled" /\ last_call = "__str__") => returned' = returned]_vars

\* C26: a Value is assigned only by a rule that names it: a rule match
\* through a List Value whose pattern nests a group with the name of another
\* Value leaves that other Value unchanged.
C26_NestedGroupStaysInside ==
  [][(pc = "rule" /\ rule_idx <= Len(CurRules(fsm)) /\ CheckRule(CurRule, line))
       => \A j \in 1..NValues :
            (\A k \in 1..Len(CurRule.caps) : CurRule.caps[k].name # fsm.values[j].name)
              => fsm'.values[j].value = fsm.values[j].value]_vars

\* C28: after any sequence of Append, Remove, AddColumn, extend and sort on
\* a TextTable t, every row r of t has its place as its number, so that
\* t[r.row] = r, has t as its table, and has one value per header column;
\* and a Remove leaves the rows that followed the removed one numbered by
\* their new places.
C28_RowsKnowTheirPlace ==
  /\ [](\A k \in 1..Len(table.rows) :
          LET r == table.rows[k] IN
            /\ r.row = k
            /\ r.row \in 1..Len(table.rows) /\ table.rows[r.row] = r
            /\ r.table = table.id
            /\ Len(r.values) = Len(table.header))
  /\ [][last_call' = "Remove" /\ used' = used + 1
          => /\ Len(table'.rows) = Len(table.rows) - 1
             /\ \E index \in 1..Len(table.rows) :
                  \A k \in 1..Len(table'.rows) :
                    /\ table'.rows[k].row = k
                    /\ table'.rows[k].values =
                         table.rows[IF k < index THEN k ELSE k + 1].values]_vars

\* A row was removed in front of another one of a table that had been
\* widened to three columns.
C28_Witness ==
  /\ last_call = "Remove"
  /\ Len(table.rows) = 1
  /\ Len(table.header) = 3
  /\ table.rows[1].values[1] = "2"

\* the row numbers of other that are partners of row i of t under keys
C29_Partners(t, i, other, keys) ==
  IF keys = <<>> THEN {j \in 1..Len(other.rows) : j = i}
  ELSE {j \in 1..Len(other.rows) :
          \A n \in 1..Len(keys) :
            RowValue(t, t.rows[i], keys[n]) =
              RowValue(other, other.rows[j], keys[n])}

\* C29: extend(other, keys) is a left join. The rows of self stay as many
\* and in their order, and keep their values in the columns self had; the
\* columns of other that self lacks are added; in each row of self such a
\* column gets the value of the first row of other with equal values at
\* keys (of the row of other with the same number when there are no keys),
\* or stays empty when there is no such row; no row of other is added.
C29_ExtendIsLeftJoin ==
  [][(last_call' = "extend" /\ used' = used + 1 /\ ~error'.raised) =>
       LET other == line'.other
           keys == line'.keys
           old == {table.header[k] : k \in 1..Len(table.header)}
           theirs == {other.header[k] : k \in 1..Len(other.header)}
           now == {table'.header[k] : k \in 1..Len(table'.header)}
       IN /\ Len(table'.rows) = Len(table.rows)
          /\ SubSeq(table'.header, 1, Len(table.header)) = table.header
          /\ now = old \cup theirs
          /\ Len(table'.header) = Cardinality(now)
          /\ \A i \in 1..Len(table.rows) :
               /\ \A c \in old :
                    RowValue(table', table'.rows[i], c) =
                      RowValue(table, table.rows[i], c)
               /\ \A c \in theirs \ old :
                    LET P == C29_Partners(table, i, other, keys) IN
                      RowValue(table', table'.rows[i], c) =
                        IF P = {} THEN ""
                        ELSE RowValue(other,
                               other.rows[CHOOSE j \in P : \A p \in P : j <= p],
                               c)]_vars

\* A table of two rows was extended by key a with a table in which two rows
\* have the key of the first row, with different values, and none has the key
\* of the second row.
C29_Witness ==
  /\ last_call = "extend" /\ ~error.raised
  /\ line.keys = <<"a">>
  /\ line.other.header = <<"a", "Beer">>
  /\ Len(line.other.rows) = 2
  /\ line.other.rows[1].values = <<"1", "1">>
  /\ line.other.rows[2].values = <<"1", "2">>
  /\ Len(table.rows) = 2
  /\ table.header = <<"a", "b", "Beer">>
  /\ table.rows[1].values = <<"1", "2", "1">>
  /\ table.rows[2].values = <<"2", "2", "">>

\* the rows of the index in which every attribute that is a column with a
\* compiled pattern matches that pattern
C30_MatchingRows(attributes) ==
  {k \in 1..Len(table.rows) :
     \A i \in 1..Len(attributes) :
       LET key == attributes[i][1] IN
         (HasColumn(table.header, key)
            /\ ~table.rows[k].values[ColumnIndex(table.header, key)].skip)
         => CellMatch(table.rows[k].values[ColumnIndex(table.header, key)],
                      attributes[i][2])}

\* C30: GetRowMatch(attributes) returns the number of the first row, in
\* index order, in which every attribute that is also a non-skipped column
\* matches the row's compiled pattern, and 0 when no row matches; no later
\* matching row is preferred over an earlier one.
C30_FirstMatchingRow ==
  [][last_call' = "GetRowMatch" =>
       LET M == C30_MatchingRows(line')
           n == returned'.rows[1]
       IN /\ M = {} => n = 0
          /\ M # {} => n \in M /\ \A m \in M : n <= m]_vars

\* Both rows match the attributes, the first one only because its Command
\* cell is skipped, and Hostname is no column; row 1 is returned.
C30_Witness ==
  /\ last_call = "GetRowMatch"
  /\ Len(table.rows) = 2
  /\ table.rows[1].values = <<SkipCell, RegexCell(<<"a">>)>>
  /\ table.rows[2].values = <<RegexCell(<<"a", "b">>), RegexCell(<<".*">>)>>
  /\ line = <<<<"Vendor", <<"a", "b">>>>, <<"Command", <<"a", "b">>>>,
              <<"Hostname", <<"a">>>>>>
  /\ returned = ReturnRow(1)

\* C32: a row already in result is changed only by a Fillup back-fill of an
\* empty cell. On every step that is not a Reset the rows stay in their
\* places and keep their length, and each cell keeps its value, a List cell
\* with all its items, unless the cell is empty, its Value has Fillup and
\* the step assigns that Value a non-empty capture, which the cell takes.
C32_RowsAreKept ==
  [][last_call' # "Reset" =>
       /\ Len(fsm'.result) >= Len(fsm.result)
       /\ \A k \in 1..Len(fsm.result) :
            /\ Len(fsm'.result[k]) = Len(fsm.result[k])
            /\ \A i \in 1..Len(fsm.result[k]) :
                 \/ fsm'.result[k][i] = fsm.result[k][i]
                 \/ /\ ~Truthy(fsm.result[k][i])
                    /\ HasOption(fsm.values[i], "Fillup")
                    /\ pc = "rule" /\ pc' = "record"
                    /\ fsm'.result[k][i] = Str(line)
                    /\ line # ""]_vars

\* The first row holds the list of one capture of the List Value hoo with
\* Filldown, which since then has been assigned a second capture, next to a
\* cell of a Value with Fillup.
C32_Witness ==
  /\ Len(fsm.values) = 2
  /\ HasOption(fsm.values[1], "Fillup")
  /\ HasOption(fsm.values[2], "List") /\ HasOption(fsm.values[2], "Filldown")
  /\ Len(fsm.result) >= 1
  /\ fsm.result[1][2].t = "list" /\ Len(fsm.result[1][2].l) = 1
  /\ Len(fsm.values[2].lvalue) = 2
  /\ fsm.result[1][1].t = "str" /\ fsm.result[1][1].s # ""

\* C33: a text can be parsed in parts. When ParseText(first, eof=False) and
\* then, without a Reset, ParseText(second) have returned, the rows are
\* those that one ParseText of the whole text returns on the freshly reset
\* FSM, also when the first part has left the FSM in End or EOF.
C33_PartsParseAsWhole ==
  [][(pc = "second" /\ pc' = "done") =>
       LET whole == ParseTextOf(ResetFSM(fsm), parts[1] \o parts[2], TRUE) IN
         /\ ~whole.raised
         /\ returned'.rows = whole.f.result]_vars

\* the item a List Value of this step's match has appended last is right:
\* AsDict(v) tells whether the item of Value v must be the dictionary
C34_ItemsAppended(AsDict(_)) ==
  \A i \in 1..Len(fsm.values) :
    \A k \in 1..Len(GroupDict(fsm, CurRule)) :
      LET cap == GroupDict(fsm, CurRule)[k]
          v == fsm.values[i]
          items == fsm'.values[i].lvalue
      IN (GetValue(fsm, cap.name) = i /\ HasOption(v, "List") /\ cap.text = "line")
           => /\ items # <<>>
              /\ items[Len(items)] =
                   IF AsDict(v) THEN GroupDictOf(v.nested, line) ELSE Str(line)

\* C34 as stated: a List Value appends the dictionary of the nested named
\* groups only when its pattern has more than one of them; with none or
\* exactly one the captured string is appended.
C34_DictForSeveralGroups ==
  [][(pc = "rule" /\ pc' = "record") =>
       C34_ItemsAppended(LAMBDA v : Len(v.nested) > 1)]_vars

\* C34, amended: a List Value appends the dictionary of the nested named
\* groups when its pattern has at least one of them; with none the captured
\* string is appended.
C34_DictForAnyGroup ==
  [][(pc = "rule" /\ pc' = "record") =>
       C34_ItemsAppended(LAMBDA v : Len(v.nested) >= 1)]_vars

\* A row holds the dictionary of the one nested group of the List Value
\* boo next to the list of captured strings of the List Value hoo.
C34_Witness ==
  /\ Len(fsm.values) = 2
  /\ fsm.values[1].nested = <<"hoo">>
  /\ Len(fsm.result) >= 1
  /\ fsm.result[1][1] = Lst(<<GroupDictOf(<<"hoo">>, "a")>>)
  /\ fsm.result[1][2] = Lst(<<Str("a")>>)

\* the largest number of rules in a state of the template of f
C36_MaxRules(f) ==
  LET T == StateTables[f.states]
      n == CHOOSE n \in DOMAIN T : \A m \in DOMAIN T : Len(T[m]) <= Len(T[n])
  IN Len(T[n])

\* the rule checks the call can still make: those of the lines not read
\* yet and those of the rules below the place of _CheckLine's loop
C36_ChecksLeft ==
  remaining * C36_MaxRules(fsm) +
    CASE pc = "rule" -> Len(CurRules(fsm)) - rule_idx + 1
      [] pc \in {"record", "lineop"} -> Len(CurRules(fsm)) - rule_idx
      [] OTHER -> 0

\* the steps the call can still take
C36_StepsLeft ==
  remaining * (3 * C36_MaxRules(fsm) + 5) +
    CASE pc = "rule" -> 3 * (Len(CurRules(fsm)) - rule_idx + 1) + 3
      [] pc = "record" -> 3 * (Len(CurRules(fsm)) - rule_idx + 1) + 2
      [] pc = "lineop" -> 3 * (Len(CurRules(fsm)) - rule_idx + 1) + 1
      [] pc = "loop" -> 2
      [] pc = "eof" -> 1
      [] OTHER -> 0

\* C36: ParseText terminates, and it checks a line against a rule at most
\* lines times the largest number of rules of a state often. Every step of
\* a call takes one from the steps that are left, which are never fewer
\* than none; a call of n lines starts with n times the largest number of
\* rules as the checks left, no step of the call adds to them and every
\* check of a rule takes one away; and while a line is worked on, the line
\* and the rules stay and the place in the rules does not go back.
C36_ChecksAreBounded ==
  /\ [](C36_StepsLeft >= 0 /\ C36_ChecksLeft >= 0)
  /\ [][pc # "idle" => C36_StepsLeft' < C36_StepsLeft]_vars
  /\ [][(pc = "idle" /\ pc' = "loop") =>
          C36_ChecksLeft' = remaining' * C36_MaxRules(fsm)]_vars
  /\ [][pc # "idle" => C36_ChecksLeft' <= C36_ChecksLeft]_vars
  /\ [][(pc = "rule" /\ rule_idx <= Len(CurRules(fsm))) =>
          C36_ChecksLeft' = C36_ChecksLeft - 1]_vars
  /\ [][(pc \in {"rule", "record", "lineop"}
           /\ pc' \in {"rule", "record", "lineop"}) =>
          /\ line' = line
          /\ remaining' = remaining
          /\ fsm'.cur_state = fsm.cur_state
          /\ rule_idx' >= rule_idx]_vars

\* A line is at the last of five rules after a Continue, with a line of the
\* text still to read.
C36_Witness ==
  /\ pc = "rule"
  /\ rule_idx = 5
  /\ Len(CurRules(fsm)) = 5
  /\ remaining = 1

C37_PageReturns ==
  (pager.at = "prompt" /\ pager.out[2] = pager.text /\ pager.out[1] < pager.out[2])
    ~> (pager.at = "idle")

\* C38: when Page returns, first_line is the index just after the last line
\* displayed; a Page call that follows a Page call that has returned
\* displays the lines from there on, a page of at most _lines lines, so no
\* line is repeated or skipped and the place in the text does not go back;
\* and after Reset the next Page call displays from the first line on.
C38_PagesFollowOn ==
  /\ [][(pager.at = "prompt" /\ pager'.at = "idle") =>
          pager'.first_line = pager.out[2]]_vars
  /\ [][(pager.at = "idle" /\ pager'.at = "prompt") =>
          /\ pager'.out[1] = pager.first_line
          /\ pager'.out[2] = Min(pager.first_line + pager.lines, pager'.text)
          /\ last_call = "Page" /\ ~error.raised =>
               /\ pager'.out[1] = pager.out[2]
               /\ pager'.out[2] >= pager.out[2]
          /\ last_call = "Reset" => pager'.out[1] = 0]_vars

\* The third Page call displays the lines 2 and 3 of four lines, the last
\* page of the text, where the call before it has stopped.
C38_Witness ==
  /\ used = 3
  /\ pager.at = "prompt"
  /\ pager.text = 4
  /\ pager.lines = 2
  /\ pager.out = <<2, 4>>
  /\ last_call = "Page"

\* the positions an index pair covers
Covered(p) == p.start..(p.end - 1)

\* C39: after merge_indexes no two pairs left in the list overlap, and every
\* position covered by a pair of the list given is covered by a pair that
\* is left.
C39_NoOverlapLeft ==
  match_index_pairs.merged =>
    LET l == match_index_pairs.list IN
      /\ \A i, j \in 1..Len(l) : i # j => Covered(l[i]) \cap Covered(l[j]) = {}
      /\ \A i \in 1..Len(match_index_pairs.given) :
           \A x \in Covered(match_index_pairs.given[i]) :
             \E j \in 1..Len(l) : x \in Covered(l[j])

====
